---- MODULE Spec2Model ----
(***************************************************************************)
(* Battle-chess engine: Board, Piece, MoveValidator, CombatSystem and      *)
(* GameEngine, modelled from the TypeScript sources.                       *)
(*                                                                         *)
(* Objects are modelled by value: a Piece is a record, the heap of pieces  *)
(* is the function `pieces` from piece identities to records, and a grid   *)
(* slot holds a piece identity (0 stands for null).  The validator works   *)
(* on a grid of piece records, as the code's (Piece | null)[][] does.      *)
(***************************************************************************)
EXTENDS Integers, Sequences, FiniteSets, TLC

(***************************************************************************)
(* PieceStats                                                              *)
(***************************************************************************)
WHITE == "white"
BLACK == "black"
PAWN == "pawn"
KNIGHT == "knight"
BISHOP == "bishop"
ROOK == "rook"
QUEEN == "queen"
KING == "king"
MELEE == "Melee"
RANGED == "Ranged"
TANK == "Tank"
PieceTypes == {PAWN, KNIGHT, BISHOP, ROOK, QUEEN, KING}

DEFAULT_STATS(type) ==
  CASE type = PAWN   -> [atk |-> 6,  def |-> 1, rng |-> 1, pClass |-> MELEE]
    [] type = KNIGHT -> [atk |-> 15, def |-> 6, rng |-> 1, pClass |-> MELEE]
    [] type = BISHOP -> [atk |-> 14, def |-> 2, rng |-> 3, pClass |-> RANGED]
    [] type = ROOK   -> [atk |-> 16, def |-> 9, rng |-> 1, pClass |-> TANK]
    [] type = QUEEN  -> [atk |-> 24, def |-> 2, rng |-> 3, pClass |-> RANGED]
    [] type = KING   -> [atk |-> 12, def |-> 5, rng |-> 1, pClass |-> TANK]

PIECE_MAX_HP(type) ==
  CASE type = PAWN   -> 20
    [] type = KNIGHT -> 45
    [] type = BISHOP -> 25
    [] type = ROOK   -> 55
    [] type = QUEEN  -> 35
    [] type = KING   -> 50

getStartingStats(type) ==
  [hp |-> PIECE_MAX_HP(type), maxHP |-> PIECE_MAX_HP(type),
   atk |-> DEFAULT_STATS(type).atk, def |-> DEFAULT_STATS(type).def,
   rng |-> DEFAULT_STATS(type).rng, pClass |-> DEFAULT_STATS(type).pClass]

(***************************************************************************)
(* Piece                                                                   *)
(***************************************************************************)
\* new Piece(type, color, x, y, id)
NewPiece(type, color, x, y, id) ==
  [type |-> type, color |-> color, x |-> x, y |-> y, id |-> id,
   stats |-> getStartingStats(type), moveCount |-> 0, buffs |-> <<>>]

\* The null reference of a grid of piece records.
Null == [type |-> "null", color |-> "null", x |-> 0 - 1, y |-> 0 - 1, id |-> 0,
         stats |-> [hp |-> 0, maxHP |-> 0, atk |-> 0, def |-> 0, rng |-> 0,
                    pClass |-> "null"],
         moveCount |-> 0, buffs |-> <<>>]

isAlive(p) == p.stats.hp > 0

Max(a, b) == IF a > b THEN a ELSE b
Min(a, b) == IF a < b THEN a ELSE b
Abs(a) == IF a < 0 THEN 0 - a ELSE a

takeDamage(p, damage) == [p EXCEPT !.stats.hp = Max(0, p.stats.hp - damage)]

\* Mutation: healing is not capped at maxHP.
healUncapped(p, amount) == [p EXCEPT !.stats.hp = p.stats.hp + amount]

heal(p, amount) == [p EXCEPT !.stats.hp = Min(p.stats.maxHP, p.stats.hp + amount)]

\* Mutation: the move is counted but the coordinates are not updated.
moveToCountsOnly(p, x, y) == [p EXCEPT !.moveCount = p.moveCount + 1]

moveTo(p, x, y) == [p EXCEPT !.x = x, !.y = y, !.moveCount = p.moveCount + 1]

\* A Buff; its value, a fraction in the source, is kept in hundredths.
Buff(id, value, duration) ==
  [id |-> id, type |-> "dmg_reduction", value |-> value, duration |-> duration]

addBuff(p, buff) == [p EXCEPT !.buffs = Append(p.buffs, buff)]

\* tickBuffs: every duration goes down by one, the buffs that reach 0 go
tickBuffs(p) ==
  [p EXCEPT !.buffs =
     SelectSeq([i \in 1..Len(p.buffs) |->
                  [p.buffs[i] EXCEPT !.duration = p.buffs[i].duration - 1]],
               LAMBDA b : b.duration > 0)]

Other(color) == IF color = WHITE THEN BLACK ELSE WHITE

(***************************************************************************)
(* MoveValidator                                                           *)
(*                                                                         *)
(* getPotentialMoves of a King on its castle row with moveCount 0 calls    *)
(* isKingInCheck, which calls getPotentialMoves of every living enemy      *)
(* piece, the enemy King included.  The recursion is on the same board, so *)
(* a call of isKingInCheck(color, board) made while one is already active  *)
(* never returns: the JavaScript stack overflows and a RangeError unwinds  *)
(* every frame (nothing catches it).  The operators below carry the set    *)
(* `stk` of colours whose isKingInCheck is active and return a record with *)
(* the field `div` set when the call does not return.                      *)
(***************************************************************************)
Coord == 0..7
Move(x, y, a) == [x |-> x, y |-> y, isAttack |-> a]
OnBoard(x, y) == x >= 0 /\ x < 8 /\ y >= 0 /\ y < 8

\* The squares in the order of the code's "for y / for x" loops.
AllSquares == [i \in 1..64 |-> [x |-> (i - 1) % 8, y |-> (i - 1) \div 8]]

Occupied(board) == SelectSeq(AllSquares, LAMBDA s : board[s.y][s.x] # Null)

RECURSIVE Flatten(_)
Flatten(ss) == IF ss = <<>> THEN <<>> ELSE Head(ss) \o Flatten(Tail(ss))

\* m.x === x && m.y === y for some m
SomeMove(moves, x, y) == \E i \in 1..Len(moves) : moves[i].x = x /\ moves[i].y = y

\* addMoveIfValid: the moves it pushes ...
addMoveIfValid(board, color, tx, ty) ==
  IF ~OnBoard(tx, ty) THEN <<>>
  ELSE IF board[ty][tx] = Null THEN << Move(tx, ty, FALSE) >>
  ELSE IF board[ty][tx].color # color THEN << Move(tx, ty, TRUE) >>
  ELSE <<>>

\* Mutation: the ray goes on over an occupied square.
addMoveReturnsOccupied(board, tx, ty) == OnBoard(tx, ty)

\* ... and the value it returns (true: the ray goes on)
addMoveReturns(board, tx, ty) == OnBoard(tx, ty) /\ board[ty][tx] = Null

RECURSIVE castRayFrom(_, _, _, _, _, _)
castRayFrom(board, color, currX, currY, dx, dy) ==
  addMoveIfValid(board, color, currX, currY)
    \o (IF addMoveReturns(board, currX, currY)
        THEN castRayFrom(board, color, currX + dx, currY + dy, dx, dy)
        ELSE <<>>)

castRay(board, piece, dx, dy) ==
  castRayFrom(board, piece.color, piece.x + dx, piece.y + dy, dx, dy)

\* Mutation: the double step does not look at the square it lands on.
pawnMovesJumps(piece, board) ==
  LET x == piece.x
      y == piece.y
      direction == IF piece.color = WHITE THEN 0 - 1 ELSE 1
      startRow == IF piece.color = WHITE THEN 6 ELSE 1
      forward ==
        IF y + direction >= 0 /\ y + direction < 8 /\ board[y + direction][x] = Null
        THEN << Move(x, y + direction, FALSE) >>
               \o (IF y = startRow
                   THEN << Move(x, y + 2 * direction, FALSE) >>
                   ELSE <<>>)
        ELSE <<>>
      capture(dx) ==
        LET tx == x + dx
            ty == y + direction
        IN IF OnBoard(tx, ty) /\ board[ty][tx] # Null /\ board[ty][tx].color # piece.color
           THEN << Move(tx, ty, TRUE) >>
           ELSE <<>>
  IN forward \o capture(0 - 1) \o capture(1)

\* The PAWN case: the forward step, the double step from the start row, and
\* the two diagonal captures.
pawnMoves(piece, board) ==
  LET x == piece.x
      y == piece.y
      direction == IF piece.color = WHITE THEN 0 - 1 ELSE 1
      startRow == IF piece.color = WHITE THEN 6 ELSE 1
      forward ==
        IF y + direction >= 0 /\ y + direction < 8 /\ board[y + direction][x] = Null
        THEN << Move(x, y + direction, FALSE) >>
               \o (IF y = startRow /\ board[y + 2 * direction][x] = Null
                   THEN << Move(x, y + 2 * direction, FALSE) >>
                   ELSE <<>>)
        ELSE <<>>
      capture(dx) ==
        LET tx == x + dx
            ty == y + direction
        IN IF OnBoard(tx, ty) /\ board[ty][tx] # Null /\ board[ty][tx].color # piece.color
           THEN << Move(tx, ty, TRUE) >>
           ELSE <<>>
  IN forward \o capture(0 - 1) \o capture(1)

knightOffsets ==
  << <<0 - 2, 0 - 1>>, <<0 - 2, 1>>, <<0 - 1, 0 - 2>>, <<0 - 1, 2>>,
     <<1, 0 - 2>>, <<1, 2>>, <<2, 0 - 1>>, <<2, 1>> >>

bishopDirections == << <<0 - 1, 0 - 1>>, <<0 - 1, 1>>, <<1, 0 - 1>>, <<1, 1>> >>

rookDirections == << <<0, 1>>, <<0, 0 - 1>>, <<1, 0>>, <<0 - 1, 0>> >>

queenDirections == bishopDirections \o rookDirections

kingOffsets ==
  << <<0 - 1, 0 - 1>>, <<0 - 1, 0>>, <<0 - 1, 1>>, <<0, 0 - 1>>,
     <<0, 1>>, <<1, 0 - 1>>, <<1, 0>>, <<1, 1>> >>

offsetMoves(piece, board, offsets) ==
  Flatten([i \in 1..Len(offsets) |->
             addMoveIfValid(board, piece.color,
                            piece.x + offsets[i][1], piece.y + offsets[i][2])])

rayMoves(piece, board, directions) ==
  Flatten([i \in 1..Len(directions) |->
             castRay(board, piece, directions[i][1], directions[i][2])])

\* The moves of every kind but the King's castling.
stepMoves(piece, board) ==
  CASE piece.type = PAWN   -> pawnMoves(piece, board)
    [] piece.type = KNIGHT -> offsetMoves(piece, board, knightOffsets)
    [] piece.type = BISHOP -> rayMoves(piece, board, bishopDirections)
    [] piece.type = ROOK   -> rayMoves(piece, board, rookDirections)
    [] piece.type = QUEEN  -> rayMoves(piece, board, queenDirections)
    [] piece.type = KING   -> offsetMoves(piece, board, kingOffsets)
    [] OTHER               -> <<>>

Returned(v) == [div |-> FALSE, val |-> v]
Diverged(v) == [div |-> TRUE, val |-> v]

\* The first King of the colour in scan order, as a sequence of 0 or 1 squares.
findKing(color, board) ==
  LET ks == SelectSeq(AllSquares,
                      LAMBDA s : board[s.y][s.x].type = KING /\ board[s.y][s.x].color = color)
  IN IF ks = <<>> THEN <<>> ELSE << Head(ks) >>

RECURSIVE getPotentialMovesR(_, _, _)
RECURSIVE isKingInCheckR(_, _, _)
RECURSIVE isPositionUnderAttackR(_, _, _, _, _)
RECURSIVE scanEnemies(_, _, _, _, _, _)

\* The loop shared by isKingInCheck and isPositionUnderAttack: the living
\* pieces of enemyColor in scan order, returning true at the first one with a
\* potential move onto (x, y).
scanEnemies(sqs, enemyColor, x, y, board, stk) ==
  IF sqs = <<>> THEN Returned(FALSE)
  ELSE LET p == board[Head(sqs).y][Head(sqs).x]
       IN IF p.color = enemyColor /\ isAlive(p)
          THEN LET moves == getPotentialMovesR(p, board, stk)
               IN IF moves.div THEN Diverged(FALSE)
                  ELSE IF SomeMove(moves.val, x, y) THEN Returned(TRUE)
                  ELSE scanEnemies(Tail(sqs), enemyColor, x, y, board, stk)
          ELSE scanEnemies(Tail(sqs), enemyColor, x, y, board, stk)

isPositionUnderAttackR(color, y, x, board, stk) ==
  scanEnemies(Occupied(board), Other(color), x, y, board, stk)

isKingInCheckR(color, board, stk) ==
  IF color \in stk THEN Diverged(FALSE)
  ELSE LET kingPos == findKing(color, board)
       IN IF kingPos = <<>> THEN Returned(TRUE)
          ELSE scanEnemies(Occupied(board), Other(color), kingPos[1].x, kingPos[1].y,
                           board, stk \cup {color})

\* One side of the castling block: the Rook's conditions, then the two
\* isPositionUnderAttack calls in order.
castleSide(piece, board, stk, castleRow, rookX, empties, a1, a2, destX) ==
  LET rook == board[castleRow][rookX]
  IN IF rook # Null /\ rook.type = ROOK /\ rook.color = piece.color /\ rook.moveCount = 0
        /\ \A c \in empties : board[castleRow][c] = Null
     THEN LET u1 == isPositionUnderAttackR(piece.color, castleRow, a1, board, stk)
          IN IF u1.div THEN Diverged(<<>>)
             ELSE IF u1.val THEN Returned(<<>>)
             ELSE LET u2 == isPositionUnderAttackR(piece.color, castleRow, a2, board, stk)
                  IN IF u2.div THEN Diverged(<<>>)
                     ELSE IF u2.val THEN Returned(<<>>)
                     ELSE Returned(<< Move(destX, castleRow, FALSE) >>)
     ELSE Returned(<<>>)

getPotentialMovesR(piece, board, stk) ==
  IF piece.type # KING THEN Returned(stepMoves(piece, board))
  ELSE LET steps == stepMoves(piece, board)
           castleRow == IF piece.color = WHITE THEN 7 ELSE 0
       IN IF piece.y = castleRow /\ piece.moveCount = 0
          THEN LET chk == isKingInCheckR(piece.color, board, stk)
               IN IF chk.div THEN Diverged(<<>>)
                  ELSE IF chk.val THEN Returned(steps)
                  ELSE LET ks == castleSide(piece, board, stk, castleRow, 7, {5, 6}, 5, 6, 6)
                       IN IF ks.div THEN Diverged(<<>>)
                          ELSE LET qs == castleSide(piece, board, stk, castleRow, 0,
                                                    {1, 2, 3}, 2, 3, 2)
                               IN IF qs.div THEN Diverged(<<>>)
                                  ELSE Returned(steps \o ks.val \o qs.val)
          ELSE Returned(steps)

getPotentialMoves(piece, board) == getPotentialMovesR(piece, board, {})

isKingInCheck(color, board) == isKingInCheckR(color, board, {})

\* piece.clone() with x, y set to the move, placed on a copy of the grid
simulateMove(board, piece, move) ==
  LET clonedPiece == [piece EXCEPT !.x = move.x, !.y = move.y]
      cleared == [board EXCEPT ![piece.y][piece.x] = Null]
  IN [cleared EXCEPT ![move.y][move.x] = clonedPiece]

RECURSIVE pickMoves(_, _, _)
\* The moves whose simulated board does not leave the King in check, in order.
pickMoves(moves, chk, i) ==
  IF i > Len(moves) THEN <<>>
  ELSE (IF chk[i].val THEN <<>> ELSE << moves[i] >>) \o pickMoves(moves, chk, i + 1)

\* potentialMoves.filter(...), chk[i] being what isKingInCheck gave for move i:
\* the filter unwinds when one of the check tests does
keepMoves(moves, chk) ==
  IF \E i \in 1..Len(chk) : chk[i].div THEN Diverged(<<>>)
  ELSE Returned(pickMoves(moves, chk, 1))

\* getValidMoves after getPotentialMoves returned (or unwound)
filterMoves(piece, board, potentialMoves) ==
  IF potentialMoves.div THEN Diverged(<<>>)
  ELSE keepMoves(potentialMoves.val,
                 [i \in 1..Len(potentialMoves.val) |->
                    isKingInCheck(piece.color,
                                  simulateMove(board, piece, potentialMoves.val[i]))])

\* Mutation: the potential moves are returned without the check filter.
getValidMovesUnfiltered(piece, board) == getPotentialMoves(piece, board)

getValidMoves(piece, board) ==
  filterMoves(piece, board, getPotentialMoves(piece, board))

(***************************************************************************)
(* Board                                                                   *)
(***************************************************************************)
NORMAL == "normal"
FIRE == "fire"
WATER == "water"
FOREST == "forest"

EmptySquares == [y \in Coord |-> [x \in Coord |-> 0]]
NormalTerrain == [y \in Coord |-> [x \in Coord |-> NORMAL]]

order == << ROOK, KNIGHT, BISHOP, QUEEN, KING, BISHOP, KNIGHT, ROOK >>

\* initializeBoard: placeRow(7, WHITE), placePawns(6, WHITE), placeRow(0, BLACK),
\* placePawns(1, BLACK); the 32 objects are numbered in creation order.
initialPieces ==
  [i \in 1..32 |->
     IF i <= 8 THEN NewPiece(order[i], WHITE, i - 1, 7, i)
     ELSE IF i <= 16 THEN NewPiece(PAWN, WHITE, i - 9, 6, i)
     ELSE IF i <= 24 THEN NewPiece(order[i - 16], BLACK, i - 17, 0, i)
     ELSE NewPiece(PAWN, BLACK, i - 25, 1, i)]

\* The grid that holds each piece of a heap at its own (x, y).
placeAll(pcs) ==
  [y \in Coord |-> [x \in Coord |->
     IF \E i \in DOMAIN pcs : pcs[i].x = x /\ pcs[i].y = y
     THEN CHOOSE i \in DOMAIN pcs : pcs[i].x = x /\ pcs[i].y = y
     ELSE 0]]

initializeBoard == placeAll(initialPieces)

getPieceAt(sq, x, y) == IF x < 0 \/ x >= 8 \/ y < 0 \/ y >= 8 THEN 0 ELSE sq[y][x]

getTileType(terr, x, y) == IF x < 0 \/ x >= 8 \/ y < 0 \/ y >= 8 THEN NORMAL ELSE terr[y][x]

setPieceAt(sq, x, y, piece) ==
  IF x < 0 \/ x >= 8 \/ y < 0 \/ y >= 8 THEN sq ELSE [sq EXCEPT ![y][x] = piece]

\* The grid of piece records the validator is given (board.squares).
Grid(sq, pcs) ==
  [y \in Coord |-> [x \in Coord |-> IF sq[y][x] = 0 THEN Null ELSE pcs[sq[y][x]]]]

\* getPiecesByColor: identities in scan order
getPiecesByColor(sq, pcs, color) ==
  LET on == SelectSeq(AllSquares,
                      LAMBDA s : sq[s.y][s.x] # 0 /\ pcs[sq[s.y][s.x]].color = color)
  IN [i \in 1..Len(on) |-> sq[on[i].y][on[i].x]]

getAlivePieces(sq, pcs) ==
  LET on == SelectSeq(AllSquares,
                      LAMBDA s : sq[s.y][s.x] # 0 /\ isAlive(pcs[sq[s.y][s.x]]))
  IN [i \in 1..Len(on) |-> sq[on[i].y][on[i].x]]

kingAlive(sq, pcs, color) ==
  LET ps == getPiecesByColor(sq, pcs, color)
  IN \E i \in 1..Len(ps) : pcs[ps[i]].type = KING /\ isAlive(pcs[ps[i]])

\* Mutation: only the White King is looked for.
isGameOverWhiteOnly(sq, pcs) ==
  IF ~kingAlive(sq, pcs, WHITE) THEN [gameOver |-> TRUE, winner |-> BLACK]
  ELSE [gameOver |-> FALSE, winner |-> "null"]

isGameOver(sq, pcs) ==
  IF ~kingAlive(sq, pcs, WHITE) THEN [gameOver |-> TRUE, winner |-> BLACK]
  ELSE IF ~kingAlive(sq, pcs, BLACK) THEN [gameOver |-> TRUE, winner |-> WHITE]
  ELSE [gameOver |-> FALSE, winner |-> "null"]

(***************************************************************************)
(* CombatSystem                                                            *)
(*                                                                         *)
(* The optional `board` argument is a sequence: <<>> when the caller       *)
(* passes none, << terrain >> otherwise.  Math.floor(d * 1.3) and          *)
(* Math.floor(d * 0.8) are computed on integers: the doubles nearest 1.3   *)
(* and 0.8 lie above them by less than 5e-17, so for the integers in play  *)
(* the product never falls below an exact integer value and the floor is   *)
(* that of 13d/10 and 8d/10.                                               *)
(***************************************************************************)
NoBoard == <<>>
WithBoard(terr) == << terr >>

Chebyshev(a, b) == Max(Abs(a.x - b.x), Abs(a.y - b.y))

classAdvantage(attacker, defender) ==
  \/ attacker.stats.pClass = RANGED /\ defender.stats.pClass = TANK
  \/ attacker.stats.pClass = TANK /\ defender.stats.pClass = MELEE
  \/ attacker.stats.pClass = MELEE /\ defender.stats.pClass = RANGED

\* Mutation: the range penalty is applied from distance 1 on.
calculateDamagePenaltyAtOne(attacker, defender, board) ==
  LET defenderDef ==
        IF board # NoBoard /\ getTileType(board[1], defender.x, defender.y) = FOREST
        THEN defender.stats.def + 3
        ELSE defender.stats.def
      d1 == IF classAdvantage(attacker, defender)
            THEN (attacker.stats.atk * 13) \div 10
            ELSE attacker.stats.atk
      d2 == IF Chebyshev(attacker, defender) >= 1 THEN (d1 * 8) \div 10 ELSE d1
  IN Max(d2 - defenderDef, 1)

calculateDamage(attacker, defender, board) ==
  LET defenderDef ==
        IF board # NoBoard /\ getTileType(board[1], defender.x, defender.y) = FOREST
        THEN defender.stats.def + 3
        ELSE defender.stats.def
      d1 == IF classAdvantage(attacker, defender)
            THEN (attacker.stats.atk * 13) \div 10
            ELSE attacker.stats.atk
      distance == Chebyshev(attacker, defender)
      d2 == IF distance > 1 THEN (d1 * 8) \div 10 ELSE d1
  IN Max(d2 - defenderDef, 1)

LogAttacks == "attacks"
LogCounters == "counters"
LogOutOfRange == "out of range to counter!"
LogDefeated == "is defeated!"
LogCastleKingside == "King castles (Kingside)!"
LogCastleQueenside == "King castles (Queenside)!"
LogInspires == "King inspires allies (+5 HP)"
LogWins == "WINS!"

\* resolveCombat from the counter-attack's result on: the record returned
combatOutcome(attacker, defender, attackDamage, counterDamage, counters) ==
  [attacker |-> IF counters THEN takeDamage(attacker, counterDamage) ELSE attacker,
   defender |-> defender,
   attackDamage |-> attackDamage,
   defenderCounterDamage |-> counterDamage,
   defenderAlive |-> isAlive(defender),
   log |-> << LogAttacks >>
             \o (IF counters THEN << LogCounters >>
                 ELSE IF isAlive(defender) THEN << LogOutOfRange >>
                 ELSE << LogDefeated >>)]

\* Mutation: a living defender counters at any distance.
counterAttackAnyRange(attacker, defender, attackDamage, board) ==
  combatOutcome(attacker, defender, attackDamage,
                IF isAlive(defender) THEN calculateDamage(defender, attacker, board) ELSE 0,
                isAlive(defender))

\* resolveCombat after defender.takeDamage: the defender counters when it is
\* alive and the attacker stands within its range
counterAttack(attacker, defender, attackDamage, board) ==
  LET counters == isAlive(defender)
                    /\ Chebyshev(attacker, defender) <= defender.stats.rng
  IN combatOutcome(attacker, defender, attackDamage,
                   IF counters THEN calculateDamage(defender, attacker, board) ELSE 0,
                   counters)

\* Mutation: the defender counters within its range whether or not the strike
\* killed it.
strikeDeadCounters(attacker, defender, attackDamage, board) ==
  combatOutcome(attacker, takeDamage(defender, attackDamage), attackDamage,
                IF Chebyshev(attacker, defender) <= defender.stats.rng
                THEN calculateDamage(defender, attacker, board) ELSE 0,
                Chebyshev(attacker, defender) <= defender.stats.rng)

\* resolveCombat after the attack damage is computed
strike(attacker, defender, attackDamage, board) ==
  counterAttack(attacker, takeDamage(defender, attackDamage), attackDamage, board)

resolveCombat(attacker, defender, board) ==
  strike(attacker, defender, calculateDamage(attacker, defender, board), board)

\* The allies a King heals: same colour, another id, within one square.
alliesOf(piece, allPieces, pcs) ==
  {a \in {allPieces[i] : i \in 1..Len(allPieces)} :
     /\ pcs[a].color = piece.color
     /\ pcs[a].id # piece.id
     /\ Abs(pcs[a].x - piece.x) <= 1
     /\ Abs(pcs[a].y - piece.y) <= 1}

\* applySpecialAbilities: the heap after the heals, and the log lines
applySpecialAbilities(piece, allPieces, pcs) ==
  LET allies == IF piece.type = KING THEN alliesOf(piece, allPieces, pcs) ELSE {}
  IN [pieces |-> [i \in DOMAIN pcs |-> IF i \in allies THEN heal(pcs[i], 5) ELSE pcs[i]],
      log |-> IF allies # {} THEN << LogInspires >> ELSE <<>>]

(***************************************************************************)
(* GameEngine: the state, and each method as a function of it              *)
(***************************************************************************)
VARIABLES
  squares,        \* board.squares: the identity in each slot, 0 for null
  pieces,         \* the Piece objects the board was built with
  terrain,        \* board.terrain
  currentTurn,
  gameStatus,
  gameMode,
  selectedPiece,  \* an identity, 0 for null
  validMoves,
  combatLog,
  moveHistory,
  turnCount,
  lastCall,       \* the last public call and what it returned
  probe,          \* the arguments and result of a pure function applied directly
  twin,           \* a second engine that is given the same calls (replay)
  rescue,         \* the King-rescue protocol: each side's one-shot flag and
                  \* the ability that was activated
  timers          \* the number of executeAIMove callbacks setTimeout holds

vars == << squares, pieces, terrain, currentTurn, gameStatus, gameMode, selectedPiece,
           validMoves, combatLog, moveHistory, turnCount, lastCall, probe, twin,
           rescue, timers >>

IN_PROGRESS == "in-progress"
GAME_OVER == "game-over"
SINGLE_PLAYER == "single-player"
TWO_PLAYER == "two-player"

\* The engine's fields as one record.
Engine ==
  [squares |-> squares, pieces |-> pieces, terrain |-> terrain,
   currentTurn |-> currentTurn, gameStatus |-> gameStatus, gameMode |-> gameMode,
   selectedPiece |-> selectedPiece, validMoves |-> validMoves, combatLog |-> combatLog,
   moveHistory |-> moveHistory, turnCount |-> turnCount]

\* constructor(gameMode), with the terrain generateTerrain drew
newEngine(mode, terr) ==
  [squares |-> initializeBoard, pieces |-> initialPieces, terrain |-> terr,
   currentTurn |-> WHITE, gameStatus |-> IN_PROGRESS, gameMode |-> mode,
   selectedPiece |-> 0, validMoves |-> <<>>, combatLog |-> <<>>,
   moveHistory |-> <<>>, turnCount |-> 1]

\* selectPiece after this.selectedPiece = piece: validMoves is assigned only
\* when getValidMoves returned
cacheMoves(e, moves) ==
  IF moves.div THEN [e |-> e, threw |-> TRUE, ret |-> <<>>]
  ELSE [e |-> [e EXCEPT !.validMoves = moves.val], threw |-> FALSE, ret |-> moves.val]

\* selectPiece: the engine after the call, whether getValidMoves unwound the
\* call with a RangeError (selectedPiece is assigned before it, validMoves only
\* after it), and the list returned.
selectPiece(e, x, y) ==
  LET piece == getPieceAt(e.squares, x, y)
  IN IF piece = 0 \/ e.pieces[piece].color # e.currentTurn \/ ~isAlive(e.pieces[piece])
     THEN [e |-> [e EXCEPT !.selectedPiece = 0, !.validMoves = <<>>],
           threw |-> FALSE, ret |-> <<>>]
     ELSE cacheMoves([e EXCEPT !.selectedPiece = piece],
                     getValidMoves(e.pieces[piece], Grid(e.squares, e.pieces)))

deselectPiece(e) == [e EXCEPT !.selectedPiece = 0, !.validMoves = <<>>]

\* Mutation: the turn counter advances, the active side does not change.
endTurnNoFlip(e) == [e EXCEPT !.turnCount = e.turnCount + 1]

\* endTurn (the deferred engine move of single-player mode is scheduled here)
endTurn(e) ==
  [e EXCEPT !.turnCount = e.turnCount + 1, !.currentTurn = Other(e.currentTurn)]

\* validMoves.find(m => m.x === toX && m.y === toY): the first match
findMove(moves, toX, toY) ==
  LET hits == SelectSeq(moves, LAMBDA m : m.x = toX /\ m.y = toY)
  IN IF hits = <<>> THEN <<>> ELSE << Head(hits) >>

\* Mutation: the Rook's move is counted and logged but the Rook stays on its
\* corner; the King moves.
castleBranchRookStays(e, attacker, fromX, fromY, toX, toY) ==
  LET rook == getPieceAt(e.squares, IF toX > fromX THEN 7 ELSE 0, fromY)
      pcs1 == IF rook # 0
              THEN [e.pieces EXCEPT ![rook].moveCount = e.pieces[rook].moveCount + 1]
              ELSE e.pieces
      log1 == IF rook = 0 THEN <<>>
              ELSE IF toX > fromX THEN << LogCastleKingside >> ELSE << LogCastleQueenside >>
  IN [squares |-> setPieceAt(setPieceAt(e.squares, fromX, fromY, 0), toX, toY, attacker),
      pieces |-> [pcs1 EXCEPT ![attacker] = moveTo(pcs1[attacker], toX, toY)],
      log |-> log1, combatResult |-> <<>>, defenderDied |-> FALSE]

\* The castling branch: the piece on the Rook's corner, whatever it is, goes to
\* column rookTo; then the King moves.
castleBranch(e, attacker, fromX, fromY, toX, toY) ==
  LET rookFrom == IF toX > fromX THEN 7 ELSE 0
      rookTo == IF toX > fromX THEN 5 ELSE 3
      rook == getPieceAt(e.squares, rookFrom, fromY)
      sq1 == IF rook # 0
             THEN setPieceAt(setPieceAt(e.squares, rookFrom, fromY, 0), rookTo, fromY, rook)
             ELSE e.squares
      pcs1 == IF rook # 0
              THEN [e.pieces EXCEPT ![rook] = moveTo(e.pieces[rook], rookTo, fromY)]
              ELSE e.pieces
      log1 == IF rook = 0 THEN <<>>
              ELSE IF toX > fromX THEN << LogCastleKingside >> ELSE << LogCastleQueenside >>
  IN [squares |-> setPieceAt(setPieceAt(sq1, fromX, fromY, 0), toX, toY, attacker),
      pieces |-> [pcs1 EXCEPT ![attacker] = moveTo(pcs1[attacker], toX, toY)],
      log |-> log1, combatResult |-> <<>>, defenderDied |-> FALSE]

\* Mutation: the engine passes its board to resolveCombat.
engineResolveCombatOnBoard(attacker, target, terr) ==
  resolveCombat(attacker, target, WithBoard(terr))

\* resolveCombat(attacker, target): the engine passes no board
engineResolveCombat(attacker, target, terr) == resolveCombat(attacker, target, NoBoard)

\* Mutation: a living attacker takes the target square whether or not the
\* defender died.
combatPlaceAdvance(e, attacker, target, fromX, fromY, toX, toY, r) ==
  LET pcs1 == [e.pieces EXCEPT ![attacker] = r.attacker, ![target] = r.defender]
      result == [attacker |-> attacker, defender |-> target,
                 attackDamage |-> r.attackDamage,
                 defenderCounterDamage |-> r.defenderCounterDamage,
                 defenderAlive |-> r.defenderAlive]
  IN IF isAlive(r.attacker)
     THEN [squares |-> setPieceAt(setPieceAt(e.squares, fromX, fromY, 0),
                                  toX, toY, attacker),
           pieces |-> [pcs1 EXCEPT ![attacker] = moveTo(pcs1[attacker], toX, toY)],
           log |-> r.log, combatResult |-> << result >>,
           defenderDied |-> ~isAlive(r.defender)]
     ELSE [squares |-> setPieceAt(e.squares, fromX, fromY, 0),
           pieces |-> pcs1,
           log |-> r.log, combatResult |-> << result >>,
           defenderDied |-> ~isAlive(r.defender)]

\* The combat branch after resolveCombat returned r: the outcome on the grid.
combatPlace(e, attacker, target, fromX, fromY, toX, toY, r) ==
  LET pcs1 == [e.pieces EXCEPT ![attacker] = r.attacker, ![target] = r.defender]
      attackerAlive == isAlive(r.attacker)
      result == [attacker |-> attacker, defender |-> target,
                 attackDamage |-> r.attackDamage,
                 defenderCounterDamage |-> r.defenderCounterDamage,
                 defenderAlive |-> r.defenderAlive]
  IN IF ~isAlive(r.defender)
     THEN IF attackerAlive
          THEN [squares |-> setPieceAt(setPieceAt(setPieceAt(e.squares, toX, toY, 0),
                                                  fromX, fromY, 0), toX, toY, attacker),
                pieces |-> [pcs1 EXCEPT ![attacker] = moveTo(pcs1[attacker], toX, toY)],
                log |-> r.log, combatResult |-> << result >>, defenderDied |-> TRUE]
          ELSE [squares |-> setPieceAt(setPieceAt(e.squares, toX, toY, 0), fromX, fromY, 0),
                pieces |-> pcs1,
                log |-> r.log, combatResult |-> << result >>, defenderDied |-> TRUE]
     ELSE [squares |-> IF attackerAlive THEN e.squares
                       ELSE setPieceAt(e.squares, fromX, fromY, 0),
           pieces |-> pcs1,
           log |-> r.log, combatResult |-> << result >>, defenderDied |-> FALSE]

\* Mutation: the combat is resolved but no slot of the grid is cleared.
combatBranchLeavesGrid(e, attacker, target, fromX, fromY, toX, toY) ==
  [combatPlace(e, attacker, target, fromX, fromY, toX, toY,
               engineResolveCombat(e.pieces[attacker], e.pieces[target], e.terrain))
     EXCEPT !.squares = e.squares]

\* The combat branch: combat first, then the outcome on the grid.
combatBranch(e, attacker, target, fromX, fromY, toX, toY) ==
  combatPlace(e, attacker, target, fromX, fromY, toX, toY,
              engineResolveCombat(e.pieces[attacker], e.pieces[target], e.terrain))

\* Mutation: the piece is relocated without moveTo counting the move.
normalBranchKeepsCount(e, attacker, fromX, fromY, toX, toY) ==
  [squares |-> setPieceAt(setPieceAt(e.squares, fromX, fromY, 0), toX, toY, attacker),
   pieces |-> [e.pieces EXCEPT ![attacker].x = toX, ![attacker].y = toY],
   log |-> <<>>, combatResult |-> <<>>, defenderDied |-> FALSE]

\* The normal movement branch.
normalBranch(e, attacker, fromX, fromY, toX, toY) ==
  [squares |-> setPieceAt(setPieceAt(e.squares, fromX, fromY, 0), toX, toY, attacker),
   pieces |-> [e.pieces EXCEPT ![attacker] = moveTo(e.pieces[attacker], toX, toY)],
   log |-> <<>>, combatResult |-> <<>>, defenderDied |-> FALSE]

\* executeMove, the game-over check that ends it: e1 is the engine after the
\* move was recorded and the selection cleared
checkGameOver(e1) ==
  IF isGameOver(e1.squares, e1.pieces).gameOver
  THEN [e |-> [e1 EXCEPT !.gameStatus = GAME_OVER,
                         !.combatLog = e1.combatLog \o << LogWins >>],
        ret |-> TRUE]
  ELSE [e |-> endTurn(e1), ret |-> TRUE]

\* Mutation: the move is not pushed on the history.
recordMoveUnrecorded(e, b, ability, record) ==
  checkGameOver([e EXCEPT !.squares = b.squares,
                          !.pieces = ability.pieces,
                          !.combatLog = b.log \o ability.log,
                          !.selectedPiece = 0,
                          !.validMoves = <<>>])

\* executeMove after the branch b and applySpecialAbilities: combatLog was
\* emptied when the move was found
recordMove(e, b, ability, record) ==
  checkGameOver([e EXCEPT !.squares = b.squares,
                          !.pieces = ability.pieces,
                          !.combatLog = b.log \o ability.log,
                          !.moveHistory = Append(e.moveHistory, record),
                          !.selectedPiece = 0,
                          !.validMoves = <<>>])

\* executeMove after one of the three branches returned b
afterBranch(e, attacker, target, fromX, fromY, toX, toY, b) ==
  recordMove(e, b,
             applySpecialAbilities(b.pieces[attacker],
                                   getAlivePieces(b.squares, b.pieces), b.pieces),
             [fromX |-> fromX, fromY |-> fromY, toX |-> toX, toY |-> toY,
              capturedPiece |-> IF b.defenderDied THEN target ELSE 0,
              combatResult |-> b.combatResult])

\* executeMove once the move was found among validMoves
moveBranch(e, move, attacker, target, fromX, fromY, toX, toY) ==
  afterBranch(e, attacker, target, fromX, fromY, toX, toY,
              IF e.pieces[attacker].type = KING /\ Abs(toX - fromX) = 2
              THEN castleBranch(e, attacker, fromX, fromY, toX, toY)
              ELSE IF target # 0 /\ move.isAttack
              THEN combatBranch(e, attacker, target, fromX, fromY, toX, toY)
              ELSE normalBranch(e, attacker, fromX, fromY, toX, toY))

\* Mutation: the log is emptied before the call is validated.
executeMoveLogFirst(e, toX, toY) ==
  IF e.selectedPiece = 0 THEN [e |-> [e EXCEPT !.combatLog = <<>>], ret |-> FALSE]
  ELSE LET move == findMove(e.validMoves, toX, toY)
       IN IF move = <<>> THEN [e |-> [e EXCEPT !.combatLog = <<>>], ret |-> FALSE]
          ELSE moveBranch(e, move[1], e.selectedPiece, getPieceAt(e.squares, toX, toY),
                          e.pieces[e.selectedPiece].x, e.pieces[e.selectedPiece].y,
                          toX, toY)

\* executeMove: the engine after the call and the value returned
executeMove(e, toX, toY) ==
  IF e.selectedPiece = 0 THEN [e |-> e, ret |-> FALSE]
  ELSE LET move == findMove(e.validMoves, toX, toY)
       IN IF move = <<>> THEN [e |-> e, ret |-> FALSE]
          ELSE moveBranch(e, move[1], e.selectedPiece, getPieceAt(e.squares, toX, toY),
                          e.pieces[e.selectedPiece].x, e.pieces[e.selectedPiece].y,
                          toX, toY)

getWinner(e) ==
  LET gameOver == isGameOver(e.squares, e.pieces)
  IN IF gameOver.gameOver THEN gameOver.winner ELSE "null"

\* Mutation: the turn counter is not set back.
resetGameKeepsTurnCount(e, terr) ==
  [newEngine(e.gameMode, terr) EXCEPT !.turnCount = e.turnCount]

\* resetGame: new Board() draws a new terrain; gameMode is kept
resetGame(e, terr) == newEngine(e.gameMode, terr)

(***************************************************************************)
(* Positions.  A constructed engine holds the standard layout, on which    *)
(* every getValidMoves call that runs a check test unwinds (both Kings     *)
(* stand unmoved on their castle rows).  Other positions are placed the    *)
(* way a test places them: through getBoard() and the Board's public       *)
(* squares / setPieceAt and the pieces' public fields, before any move.    *)
(***************************************************************************)
moved(p) == [p EXCEPT !.moveCount = 1]
withHP(p, hp) == [p EXCEPT !.stats.hp = hp]

\* Two White Pawns, one of them wounded, next to a Black Pawn; the Black King
\* has moved.
DuelPosition ==
  << NewPiece(KING, WHITE, 4, 7, 1),
     NewPiece(PAWN, WHITE, 3, 4, 2),
     moved(NewPiece(KING, BLACK, 4, 0, 3)),
     NewPiece(PAWN, BLACK, 4, 3, 4),
     withHP(NewPiece(PAWN, WHITE, 5, 4, 5), 5) >>

\* A White Queen next to a wounded Black King, and a wounded Black Pawn two
\* squares from her.
KingKillPosition ==
  << moved(NewPiece(KING, WHITE, 4, 7, 1)),
     NewPiece(QUEEN, WHITE, 3, 1, 2),
     withHP(moved(NewPiece(KING, BLACK, 4, 0, 3)), 20),
     withHP(NewPiece(PAWN, BLACK, 3, 3, 4), 15) >>

\* Rook to the a-file mates the cornered Black King.
TrapPosition ==
  << moved(NewPiece(KING, WHITE, 2, 1, 1)),
     moved(NewPiece(ROOK, WHITE, 7, 5, 2)),
     moved(NewPiece(KING, BLACK, 0, 0, 3)) >>

\* The White King and its h-Rook unmoved, a Black Pawn on e2.
CastlePosition ==
  << NewPiece(KING, WHITE, 4, 7, 1),
     NewPiece(ROOK, WHITE, 7, 7, 2),
     moved(NewPiece(KING, BLACK, 4, 0, 3)),
     moved(NewPiece(PAWN, BLACK, 4, 6, 4)) >>

Positions == << DuelPosition, KingKillPosition, TrapPosition, CastlePosition >>

\* generateTerrain draws each square of rows 2..5; the draws kept here
MixedTerrain ==
  [y \in Coord |-> [x \in Coord |->
     IF y = 3 /\ x = 4 THEN FOREST
     ELSE IF y = 3 /\ x = 3 THEN FIRE
     ELSE IF y = 4 /\ x = 3 THEN WATER
     ELSE IF y \in 2..5 /\ x = 0 THEN FOREST
     ELSE NORMAL]]

TerrainMaps == {NormalTerrain, MixedTerrain}

\* Most moves executed in one game.
MaxMoves == 2

NoProbe == [fn |-> "none"]
NoTwin == [gameMode |-> "none"]

\* The rescue protocol at construction: both sides' flags available, no
\* ability activated.
NO_ABILITY == "none"
TELEPORT == "teleport"
SWAP == "swap"
RescueReady == [available |-> [c \in {WHITE, BLACK} |-> TRUE], pending |-> NO_ABILITY]

SetEngine(e) ==
  /\ squares' = e.squares
  /\ pieces' = e.pieces
  /\ terrain' = e.terrain
  /\ currentTurn' = e.currentTurn
  /\ gameStatus' = e.gameStatus
  /\ gameMode' = e.gameMode
  /\ selectedPiece' = e.selectedPiece
  /\ validMoves' = e.validMoves
  /\ combatLog' = e.combatLog
  /\ moveHistory' = e.moveHistory
  /\ turnCount' = e.turnCount

Fresh(e) == e = newEngine(e.gameMode, e.terrain)

Init ==
  /\ \E terr \in TerrainMaps :
       LET e == newEngine(TWO_PLAYER, terr)
       IN /\ squares = e.squares
          /\ pieces = e.pieces
          /\ terrain = e.terrain
          /\ currentTurn = e.currentTurn
          /\ gameStatus = e.gameStatus
          /\ gameMode = e.gameMode
          /\ selectedPiece = e.selectedPiece
          /\ validMoves = e.validMoves
          /\ combatLog = e.combatLog
          /\ moveHistory = e.moveHistory
          /\ turnCount = e.turnCount
  /\ lastCall = [op |-> "constructor", ret |-> "returned"]
  /\ probe = NoProbe
  /\ twin = NoTwin
  /\ rescue = RescueReady
  /\ timers = 0

\* A position placed on the board of a fresh engine.
Arrange(i) ==
  /\ Fresh(Engine)
  /\ SetEngine([Engine EXCEPT !.squares = placeAll(Positions[i]), !.pieces = Positions[i]])
  /\ lastCall' = [op |-> "arrange", ret |-> "returned"]
  /\ UNCHANGED << probe, twin, rescue, timers >>

SelectPiece(x, y) ==
  \E r \in {selectPiece(Engine, x, y)} :
     /\ SetEngine(r.e)
     /\ lastCall' = [op |-> "selectPiece", ret |-> IF r.threw THEN "threw" ELSE "returned"]
     /\ UNCHANGED << probe, twin, rescue, timers >>

DeselectPiece ==
  /\ SetEngine(deselectPiece(Engine))
  /\ lastCall' = [op |-> "deselectPiece", ret |-> "returned"]
  /\ UNCHANGED << probe, twin, rescue, timers >>

ExecuteMove(x, y) ==
  \E r \in {executeMove(Engine, x, y)} :
     /\ r.ret => Len(moveHistory) < MaxMoves
     /\ SetEngine(r.e)
     /\ lastCall' = [op |-> "executeMove", ret |-> IF r.ret THEN "true" ELSE "false"]
     /\ UNCHANGED << probe, twin, rescue, timers >>

ResetGame ==
  /\ \E terr \in TerrainMaps : SetEngine(resetGame(Engine, terr))
  /\ lastCall' = [op |-> "resetGame", ret |-> "returned"]
  /\ UNCHANGED << probe, twin, rescue, timers >>

Inputs == (0 - 1)..8

Next ==
  \/ \E i \in 1..Len(Positions) : Arrange(i)
  \/ \E x \in Inputs, y \in Inputs : SelectPiece(x, y)
  \/ DeselectPiece
  \/ \E x \in Inputs, y \in Inputs : ExecuteMove(x, y)
  \/ ResetGame

Spec == Init /\ [][Next]_vars

(***************************************************************************)
(* Properties of the engine (Spec)                                         *)
(***************************************************************************)
\* The step is an executeMove call that returned true / false.
Accepted == lastCall'.op = "executeMove" /\ lastCall'.ret = "true"
Rejected == lastCall'.op = "executeMove" /\ lastCall'.ret = "false"

\* The record the accepted call pushed on the move history.
LastRecord == moveHistory'[Len(moveHistory')]

\* No living King of the colour stands on a square of the grid.
KingGone(sq, pcs, color) ==
  \A y \in Coord, x \in Coord :
     sq[y][x] = 0 \/ pcs[sq[y][x]].type # KING \/ pcs[sq[y][x]].color # color
       \/ pcs[sq[y][x]].stats.hp <= 0

\* C1: after an executeMove call that returned true and did not end the game,
\* the active side is the other side and the turn counter is one more than
\* before the call.  (executeMove is the only action of the engine that can
\* succeed; it has no executeAbilityAction.)
C1_TurnAlternation ==
  [][(Accepted /\ gameStatus' # GAME_OVER)
       => (currentTurn' = Other(currentTurn) /\ turnCount' = turnCount + 1)]_vars

C1_Witness ==
  /\ lastCall = [op |-> "executeMove", ret |-> "true"]
  /\ gameStatus = IN_PROGRESS
  /\ currentTurn = BLACK
  /\ turnCount = 2

\* C2: in every reachable state, executeMove(x, y) with no selection or with
\* (x, y) not among the cached moves returns false and an engine equal to the
\* one it was given; and the step of a call that returned false changes no
\* field of the engine (grid, pieces, active side, turn counter, status,
\* selection, cached moves, log, history).
C2_RejectedMoveChangesNothing ==
  /\ [](\A x \in Inputs, y \in Inputs :
          (selectedPiece = 0 \/ ~SomeMove(validMoves, x, y))
            => executeMove(Engine, x, y) = [e |-> Engine, ret |-> FALSE])
  /\ [][Rejected => UNCHANGED << squares, pieces, terrain, currentTurn, turnCount,
                                 gameStatus, gameMode, selectedPiece, validMoves,
                                 combatLog, moveHistory >>]_vars
  /\ [][Accepted => (selectedPiece # 0
                       /\ SomeMove(validMoves, LastRecord.toX, LastRecord.toY))]_vars

\* A rejected call made with a selection, a non-empty cache and a non-empty log.
C2_Witness ==
  /\ lastCall = [op |-> "executeMove", ret |-> "false"]
  /\ selectedPiece # 0
  /\ validMoves # <<>>
  /\ combatLog # <<>>
  /\ moveHistory # <<>>

\* C5: the status is game-over only when a King is absent from the grid or has
\* 0 HP; and when an accepted executeMove leaves a King absent or dead, the
\* status after the call is game-over and the active side and the turn counter
\* are those before the call.
C5_GameOverIffKingGone ==
  /\ [](gameStatus = GAME_OVER
          => (KingGone(squares, pieces, WHITE) \/ KingGone(squares, pieces, BLACK)))
  /\ [][(Accepted /\ (KingGone(squares', pieces', WHITE)
                        \/ KingGone(squares', pieces', BLACK)))
          => (gameStatus' = GAME_OVER /\ currentTurn' = currentTurn
                /\ turnCount' = turnCount)]_vars

\* The move that killed the Black King was just accepted.
C5_Witness ==
  /\ lastCall = [op |-> "executeMove", ret |-> "true"]
  /\ gameStatus = GAME_OVER
  /\ KingGone(squares, pieces, BLACK)
  /\ Len(moveHistory) = 1
  /\ turnCount = 1
  /\ currentTurn = WHITE

\* The accepted call was an attack: its target square held a piece of the
\* other colour before the call.
AttackedPiece == squares[LastRecord.toY][LastRecord.toX]
IsAttackStep ==
  /\ Accepted
  /\ AttackedPiece # 0
  /\ pieces[AttackedPiece].color # pieces[selectedPiece].color

\* C9: when an executed attack leaves the defender alive, the defender is on
\* its square and the attacker has not advanced: it is on its origin square,
\* or the square is empty if the counter killed it.  A White Pawn at 20 HP
\* attacking an adjacent Black Pawn at 20 HP, both on Normal tiles, leaves both
\* at 15 HP on their squares.
C9_DefenderHoldsSquare ==
  [][(IsAttackStep /\ pieces'[AttackedPiece].stats.hp > 0)
       => LET a == selectedPiece
              d == AttackedPiece
          IN /\ squares'[pieces[d].y][pieces[d].x] = d
             /\ pieces'[d].x = pieces[d].x /\ pieces'[d].y = pieces[d].y
             /\ pieces'[a].x = pieces[a].x /\ pieces'[a].y = pieces[a].y
             /\ squares'[pieces[a].y][pieces[a].x]
                  = (IF pieces'[a].stats.hp > 0 THEN a ELSE 0)
             /\ (/\ pieces[a].type = PAWN /\ pieces[a].color = WHITE
                 /\ pieces[d].type = PAWN /\ pieces[d].color = BLACK
                 /\ pieces[a].stats.hp = 20 /\ pieces[d].stats.hp = 20
                 /\ Chebyshev(pieces[a], pieces[d]) = 1
                 /\ getTileType(terrain, pieces[a].x, pieces[a].y) = NORMAL
                 /\ getTileType(terrain, pieces[d].x, pieces[d].y) = NORMAL)
                  => (pieces'[a].stats.hp = 15 /\ pieces'[d].stats.hp = 15)]_vars

\* The Pawn duel was just fought on Normal terrain.
C9_Witness ==
  /\ lastCall = [op |-> "executeMove", ret |-> "true"]
  /\ terrain = NormalTerrain
  /\ Len(moveHistory) = 1
  /\ moveHistory[1].combatResult # <<>>
  /\ squares[4][3] = 2 /\ pieces[2].type = PAWN /\ pieces[2].stats.hp = 15
  /\ squares[3][4] = 4 /\ pieces[4].type = PAWN /\ pieces[4].stats.hp = 15

\* Every living piece of the colour has an empty list of legal moves.
NoLegalMove(sq, pcs, color) ==
  \A y \in Coord, x \in Coord :
     (sq[y][x] # 0 /\ pcs[sq[y][x]].color = color /\ isAlive(pcs[sq[y][x]]))
       => getValidMoves(pcs[sq[y][x]], Grid(sq, pcs)) = Returned(<<>>)

InCheck(sq, pcs, color) == isKingInCheck(color, Grid(sq, pcs)) = Returned(TRUE)

\* C4: when endTurn makes a side active that has no legal move and whose King
\* is in check (no rescue has been used: the engine has no call that uses
\* one), the status is neither in-progress nor game-over.
C4_RescuePendingOnTrap ==
  [][(Accepted /\ currentTurn' # currentTurn
        /\ ~KingGone(squares', pieces', currentTurn')
        /\ InCheck(squares', pieces', currentTurn')
        /\ NoLegalMove(squares', pieces', currentTurn'))
       => gameStatus' \notin {IN_PROGRESS, GAME_OVER}]_vars

\* The square holds no piece selectPiece accepts: it is off the board, empty,
\* or holds a piece of the side not to move or a dead piece.
NotSelectable(x, y) ==
  LET piece == getPieceAt(squares, x, y)
  IN piece = 0 \/ pieces[piece].color # currentTurn \/ pieces[piece].stats.hp <= 0

\* C11: in every reachable state, selectPiece(x, y) on a square that is off the
\* board, empty, or holds a piece of the other side or a dead piece returns the
\* empty list and an engine that differs only by an empty selection and an
\* empty cache; on any other square the call returns, the selection is the
\* piece on the square, the list returned is the list cached, and no other
\* field changes.
C11_SelectPiece ==
  \A x \in Inputs, y \in Inputs :
     LET r == selectPiece(Engine, x, y)
     IN IF NotSelectable(x, y)
        THEN /\ ~r.threw /\ r.ret = <<>>
             /\ r.e = [Engine EXCEPT !.selectedPiece = 0, !.validMoves = <<>>]
        ELSE /\ ~r.threw
             /\ r.e.selectedPiece = squares[y][x]
             /\ r.e.validMoves = r.ret
             /\ r.e = [Engine EXCEPT !.selectedPiece = squares[y][x],
                                     !.validMoves = r.ret]

\* The sequence s is an initial part of t.
IsPrefix(s, t) == Len(s) <= Len(t) /\ \A i \in 1..Len(s) : t[i] = s[i]

\* C15: every call but resetGame leaves the entries already in the log in
\* place and in order, adding entries only at its end; resetGame is the only
\* call that empties the log.
C15_LogAdditive ==
  [][lastCall'.op # "resetGame" => IsPrefix(combatLog, combatLog')]_vars

(***************************************************************************)
(* SpecCombat: calculateDamage and resolveCombat applied to drawn inputs   *)
(***************************************************************************)
\* Largest distance between the two pieces.
MaxDist == 3

\* A piece with the given combat stats (its type plays no part in combat).
CombatPiece(color, x, y, id, pClass, atk, def, hp, rng) ==
  [NewPiece(PAWN, color, x, y, id) EXCEPT
     !.stats = [hp |-> hp, maxHP |-> 50, atk |-> atk, def |-> def, rng |-> rng,
                pClass |-> pClass]]

ClassValues == {MELEE, RANGED, TANK}

Attackers ==
  {CombatPiece(WHITE, 0, 0, 1, c, atk, 1, hp, 1) :
     c \in ClassValues, atk \in {6, 24}, hp \in {3, 20}}

Defenders ==
  {CombatPiece(BLACK, sq[1], sq[2], 2, c, 6, def, hp, rng) :
     sq \in {q \in (0..MaxDist) \X (0..MaxDist) : q[1] >= q[2] /\ q[1] > 0},
     c \in ClassValues, def \in {1, 9, 20}, hp \in {5, 50}, rng \in {1, 3}}

ForestAt(x, y) == [NormalTerrain EXCEPT ![y][x] = FOREST]

\* The board argument: none, all Normal, Forest under the defender, Forest
\* under the attacker.
BoardArgs(attacker, defender) ==
  {NoBoard, WithBoard(NormalTerrain), WithBoard(ForestAt(defender.x, defender.y)),
   WithBoard(ForestAt(attacker.x, attacker.y))}

InitCombat ==
  /\ \E e \in {newEngine(TWO_PLAYER, NormalTerrain)} :
       /\ squares = e.squares
       /\ pieces = e.pieces
       /\ terrain = e.terrain
       /\ currentTurn = e.currentTurn
       /\ gameStatus = e.gameStatus
       /\ gameMode = e.gameMode
       /\ selectedPiece = e.selectedPiece
       /\ validMoves = e.validMoves
       /\ combatLog = e.combatLog
       /\ moveHistory = e.moveHistory
       /\ turnCount = e.turnCount
  /\ lastCall = [op |-> "constructor", ret |-> "returned"]
  /\ twin = NoTwin
  /\ rescue = RescueReady
  /\ timers = 0
  /\ \E a \in Attackers, d \in Defenders :
        \E b \in BoardArgs(a, d) :
           probe = [fn |-> "input", attacker |-> a, defender |-> d, board |-> b]

EngineUnchanged ==
  UNCHANGED << squares, pieces, terrain, currentTurn, gameStatus, gameMode, selectedPiece,
               validMoves, combatLog, moveHistory, turnCount, lastCall, twin, rescue,
               timers >>

ApplyCalculateDamage ==
  /\ probe.fn = "input"
  /\ probe' = [fn |-> "calculateDamage", attacker |-> probe.attacker,
               defender |-> probe.defender, board |-> probe.board,
               result |-> calculateDamage(probe.attacker, probe.defender, probe.board)]
  /\ EngineUnchanged

ApplyResolveCombat ==
  /\ probe.fn = "input"
  /\ probe' = [fn |-> "resolveCombat", attacker |-> probe.attacker,
               defender |-> probe.defender, board |-> probe.board,
               result |-> resolveCombat(probe.attacker, probe.defender, probe.board)]
  /\ EngineUnchanged

NextCombat == ApplyCalculateDamage \/ ApplyResolveCombat

SpecCombat == InitCombat /\ [][NextCombat]_vars

\* The damage formula as the specification states it.
ReferenceDamage(atk, def, aClass, dClass, dist, onForest) ==
  LET base1 == IF << aClass, dClass >>
                    \in {<< RANGED, TANK >>, << TANK, MELEE >>, << MELEE, RANGED >>}
               THEN (atk * 13) \div 10 ELSE atk
      base2 == IF dist > 1 THEN (base1 * 8) \div 10 ELSE base1
      eff == IF onForest THEN def + 3 ELSE def
  IN IF base2 - eff >= 1 THEN base2 - eff ELSE 1

ChebyshevDistance(a, d) ==
  LET dx == IF a.x >= d.x THEN a.x - d.x ELSE d.x - a.x
      dy == IF a.y >= d.y THEN a.y - d.y ELSE d.y - a.y
  IN IF dx >= dy THEN dx ELSE dy

\* The piece stands on a Forest tile of the board the call was given.
OnForest(board, p) == board # NoBoard /\ board[1][p.y][p.x] = FOREST

\* The reference damage of a strike of a on d.
ReferenceStrike(a, d, board) ==
  ReferenceDamage(a.stats.atk, d.stats.def, a.stats.pClass, d.stats.pClass,
                  ChebyshevDistance(a, d), OnForest(board, d))

InLog(log, line) == \E i \in 1..Len(log) : log[i] = line

\* The defender after the attacker's strike, by the reference formula.
StruckHP(a, d, board) ==
  LET dmg == ReferenceStrike(a, d, board)
  IN IF d.stats.hp > dmg THEN d.stats.hp - dmg ELSE 0

\* resolveCombat's result when the defender does not counter / counters.
NoCounter(r, a) ==
  r.defenderCounterDamage = 0 /\ r.attacker.stats.hp = a.stats.hp

CountersByFormula(r, a, d, board) ==
  LET dmg == ReferenceStrike(d, a, board)
  IN /\ r.defenderCounterDamage = dmg
     /\ r.attacker.stats.hp = (IF a.stats.hp > dmg THEN a.stats.hp - dmg ELSE 0)

MaxRows == 2

\* The White King on e1 with both Rooks, the Black King on e8, one more Black
\* piece, and a White Bishop that may stand on d2.
ValidatorBoards ==
  {<< [NewPiece(KING, WHITE, 4, 7, 1) EXCEPT !.moveCount = kmc],
      [NewPiece(ROOK, WHITE, 7, 7, 2) EXCEPT !.moveCount = rmc],
      NewPiece(ROOK, WHITE, 0, 7, 3),
      [NewPiece(KING, BLACK, 4, 0, 4) EXCEPT !.moveCount = bmc],
      NewPiece(t, BLACK, sq[1], sq[2], 5) >>
     \o (IF shield THEN << NewPiece(BISHOP, WHITE, 3, 6, 6) >> ELSE <<>>) :
   kmc \in {0, 1}, rmc \in {0, 1}, bmc \in {0, 1},
   t \in {PAWN, KNIGHT, BISHOP, ROOK, QUEEN},
   sq \in {q \in Coord \X ((7 - MaxRows)..6) : q # << 3, 6 >>},
   shield \in BOOLEAN}

InitValidator ==
  /\ \E pcs \in ValidatorBoards, e \in {newEngine(TWO_PLAYER, NormalTerrain)} :
       /\ squares = placeAll(pcs)
       /\ pieces = pcs
       /\ terrain = e.terrain
       /\ currentTurn = e.currentTurn
       /\ gameStatus = e.gameStatus
       /\ gameMode = e.gameMode
       /\ selectedPiece = e.selectedPiece
       /\ validMoves = e.validMoves
       /\ combatLog = e.combatLog
       /\ moveHistory = e.moveHistory
       /\ turnCount = e.turnCount
  /\ lastCall = [op |-> "constructor", ret |-> "returned"]
  /\ twin = NoTwin
  /\ rescue = RescueReady
  /\ timers = 0
  /\ probe = NoProbe

ApplyGetValidMoves(i) ==
  /\ probe' = [fn |-> "getValidMoves", piece |-> i,
               result |-> getValidMoves(pieces[i], Grid(squares, pieces))]
  /\ EngineUnchanged

NextValidator == \E i \in DOMAIN pieces : ApplyGetValidMoves(i)

SpecValidator == InitValidator /\ [][NextValidator]_vars

\* The grid after the move is applied: the piece relocated onto the
\* destination, replacing any occupant, its move counted.
AppliedGrid(board, piece, move) ==
  [y \in Coord |-> [x \in Coord |->
     IF x = move.x /\ y = move.y
     THEN [piece EXCEPT !.x = move.x, !.y = move.y, !.moveCount = piece.moveCount + 1]
     ELSE IF x = piece.x /\ y = piece.y THEN Null
     ELSE board[y][x]]]

\* C3: when getValidMoves returns, none of the moves it returns, applied to
\* the board, leaves the moving side's own King in check according to
\* isKingInCheck (which returns, with the answer false).
C3_LegalMovesAreSafe ==
  (probe.fn = "getValidMoves" /\ ~probe.result.div)
    => \A k \in 1..Len(probe.result.val) :
          isKingInCheck(pieces[probe.piece].color,
                        AppliedGrid(Grid(squares, pieces), pieces[probe.piece],
                                    probe.result.val[k]))
            = Returned(FALSE)

\* getValidMoves returned some of the piece's potential moves and dropped others.
C3_Witness ==
  /\ probe.fn = "getValidMoves"
  /\ ~probe.result.div
  /\ probe.result.val # <<>>
  /\ Len(probe.result.val)
       < Len(getPotentialMoves(pieces[probe.piece], Grid(squares, pieces)).val)

\* Chess geometry: the squares strictly between two squares of a line are empty.
ClearLine(board, x1, y1, x2, y2) ==
  LET n == IF Abs(x2 - x1) >= Abs(y2 - y1) THEN Abs(x2 - x1) ELSE Abs(y2 - y1)
      sx == IF x2 > x1 THEN 1 ELSE IF x2 < x1 THEN 0 - 1 ELSE 0
      sy == IF y2 > y1 THEN 1 ELSE IF y2 < y1 THEN 0 - 1 ELSE 0
  IN \A k \in 1..(n - 1) : board[y1 + k * sy][x1 + k * sx] = Null

\* Chess geometry: piece p attacks the square (x, y).
Attacks(board, p, x, y) ==
  LET dx == x - p.x
      dy == y - p.y
      straight == (dx = 0 \/ dy = 0) /\ << dx, dy >> # << 0, 0 >>
      diagonal == Abs(dx) = Abs(dy) /\ dx # 0
  IN CASE p.type = PAWN -> Abs(dx) = 1 /\ dy = (IF p.color = WHITE THEN 0 - 1 ELSE 1)
       [] p.type = KNIGHT -> {Abs(dx), Abs(dy)} = {1, 2}
       [] p.type = KING -> Abs(dx) <= 1 /\ Abs(dy) <= 1 /\ << dx, dy >> # << 0, 0 >>
       [] p.type = BISHOP -> diagonal /\ ClearLine(board, p.x, p.y, x, y)
       [] p.type = ROOK -> straight /\ ClearLine(board, p.x, p.y, x, y)
       [] p.type = QUEEN -> (straight \/ diagonal) /\ ClearLine(board, p.x, p.y, x, y)
       [] OTHER -> FALSE

\* Some living piece of the other colour attacks (x, y).
AttackedBy(board, color, x, y) ==
  \E py \in Coord, px \in Coord :
     /\ board[py][px] # Null
     /\ board[py][px].color = color
     /\ board[py][px].stats.hp > 0
     /\ Attacks(board, board[py][px], x, y)

\* The castling move towards the Rook's corner is in the list.
HasCastle(moves, king, destX) ==
  \E k \in 1..Len(moves) : moves[k].x = destX /\ moves[k].y = king.y /\ Abs(destX - king.x) = 2

\* C6: the castling move is absent from the King's legal moves whenever the
\* King has moved, or the Rook of that side has moved, or a square the King
\* crosses or lands on is attacked by an enemy piece.
C6_CastlingGating ==
  (probe.fn = "getValidMoves" /\ ~probe.result.div /\ pieces[probe.piece].type = KING)
    => LET king == pieces[probe.piece]
           board == Grid(squares, pieces)
           barred(rookX, crossed) ==
             \/ king.moveCount > 0
             \/ (board[king.y][rookX] # Null /\ board[king.y][rookX].moveCount > 0)
             \/ \E c \in crossed : AttackedBy(board, Other(king.color), c, king.y)
       IN /\ barred(7, {5, 6}) => ~HasCastle(probe.result.val, king, 6)
          /\ barred(0, {3, 2}) => ~HasCastle(probe.result.val, king, 2)

(***************************************************************************)
(* SpecReplay: two engines, each with the terrain its Board drew, given    *)
(* the same calls                                                          *)
(***************************************************************************)
InitReplay ==
  /\ \E terr \in TerrainMaps, e \in {newEngine(TWO_PLAYER, NormalTerrain)} :
       /\ squares = e.squares
       /\ pieces = e.pieces
       /\ terrain = terr
       /\ currentTurn = e.currentTurn
       /\ gameStatus = e.gameStatus
       /\ gameMode = e.gameMode
       /\ selectedPiece = e.selectedPiece
       /\ validMoves = e.validMoves
       /\ combatLog = e.combatLog
       /\ moveHistory = e.moveHistory
       /\ turnCount = e.turnCount
  /\ \E terr \in TerrainMaps : twin = newEngine(TWO_PLAYER, terr)
  /\ lastCall = [op |-> "constructor", ret |-> "returned"]
  /\ probe = NoProbe
  /\ rescue = RescueReady
  /\ timers = 0

ArrangeBoth(i) ==
  /\ Fresh(Engine)
  /\ Fresh(twin)
  /\ SetEngine([Engine EXCEPT !.squares = placeAll(Positions[i]), !.pieces = Positions[i]])
  /\ twin' = [twin EXCEPT !.squares = placeAll(Positions[i]), !.pieces = Positions[i]]
  /\ lastCall' = [op |-> "arrange", ret |-> "returned"]
  /\ UNCHANGED << probe, rescue, timers >>

SelectBoth(x, y) ==
  \E r \in {selectPiece(Engine, x, y)} :
     /\ SetEngine(r.e)
     /\ twin' = selectPiece(twin, x, y).e
     /\ lastCall' = [op |-> "selectPiece", ret |-> IF r.threw THEN "threw" ELSE "returned"]
     /\ UNCHANGED << probe, rescue, timers >>

DeselectBoth ==
  /\ SetEngine(deselectPiece(Engine))
  /\ twin' = deselectPiece(twin)
  /\ lastCall' = [op |-> "deselectPiece", ret |-> "returned"]
  /\ UNCHANGED << probe, rescue, timers >>

ExecuteBoth(x, y) ==
  \E r \in {executeMove(Engine, x, y)} :
     /\ r.ret => Len(moveHistory) < MaxMoves
     /\ SetEngine(r.e)
     /\ twin' = executeMove(twin, x, y).e
     /\ lastCall' = [op |-> "executeMove", ret |-> IF r.ret THEN "true" ELSE "false"]
     /\ UNCHANGED << probe, rescue, timers >>

ResetBoth ==
  /\ \E terr \in TerrainMaps : SetEngine(resetGame(Engine, terr))
  /\ \E terr \in TerrainMaps : twin' = resetGame(twin, terr)
  /\ lastCall' = [op |-> "resetGame", ret |-> "returned"]
  /\ UNCHANGED << probe, rescue, timers >>

NextReplay ==
  \/ \E i \in 1..Len(Positions) : ArrangeBoth(i)
  \/ \E x \in Inputs, y \in Inputs : SelectBoth(x, y)
  \/ DeselectBoth
  \/ \E x \in Inputs, y \in Inputs : ExecuteBoth(x, y)
  \/ ResetBoth

SpecReplay == InitReplay /\ [][NextReplay]_vars

\* The piece layout: the occupant of every square and every piece's fields.
Layout(e) == [squares |-> e.squares, pieces |-> e.pieces]

\* The record is of a move that left a King dead: it captured a King, or its
\* attacker was a King that the counter killed.
KingDiedIn(rec) ==
  \/ rec.capturedPiece # 0 /\ pieces[rec.capturedPiece].type = KING
  \/ /\ rec.combatResult # <<>>
     /\ pieces[rec.combatResult[1].attacker].type = KING
     /\ pieces[rec.combatResult[1].attacker].stats.hp = 0

\* The accepted moves made while both Kings lived and that left both alive.
MovesNotEnding ==
  Cardinality({k \in 1..Len(moveHistory) : \A j \in 1..k : ~KingDiedIn(moveHistory[j])})

\* C10 as stated: after resetGame and the same n accepted moves, two runs with
\* any terrains have the same piece layout, and the turn counter is 1 + n.
C10_AsStated ==
  /\ Layout(Engine) = Layout(twin)
  /\ moveHistory = twin.moveHistory
  /\ turnCount = 1 + Len(moveHistory)
  /\ twin.turnCount = 1 + Len(moveHistory)

\* C10 (amended): after resetGame and the same n accepted moves, two runs with
\* any terrains have the same piece layout and the same turn counter, which is
\* 1 + the number of those moves that did not end the game.
C10_ReplayDeterminism ==
  /\ Layout(Engine) = Layout(twin)
  /\ moveHistory = twin.moveHistory
  /\ turnCount = 1 + MovesNotEnding
  /\ twin.turnCount = turnCount

\* Two moves replayed on different terrains, a fight on a Forest tile of one
\* of them included.
C10_Witness ==
  /\ terrain # twin.terrain
  /\ Len(moveHistory) = 2
  /\ moveHistory[1].combatResult # <<>>
  /\ getTileType(terrain, moveHistory[1].toX, moveHistory[1].toY) = FOREST
  /\ turnCount = 3

(***************************************************************************)
(* SpecRescue: the King-rescue protocol.  The engine's source has no       *)
(* rescue code (GameStatus has two playing values, endTurn tests nothing); *)
(* the protocol is modelled from its specification, on top of the engine's *)
(* own selectPiece, executeMove and endTurn.                               *)
(***************************************************************************)
KING_RESCUE_PENDING == "king-rescue-pending"
LogKingTrapped == "King is trapped!"
LogAbilityPrompt == "Choose a target"

\* The rescue buff: 80% damage reduction for 3 turns.
RescueBuff == Buff("rescue", 80, 3)

\* The living King of the colour on the grid, 0 when there is none.
kingOf(e, color) ==
  LET ks == {i \in DOMAIN e.pieces :
               /\ e.pieces[i].type = KING /\ e.pieces[i].color = color
               /\ isAlive(e.pieces[i])
               /\ getPieceAt(e.squares, e.pieces[i].x, e.pieces[i].y) = i}
  IN IF ks = {} THEN 0 ELSE CHOOSE i \in ks : TRUE

\* The colour's pieces on the grid, alive.
livingOf(e, color) ==
  {i \in DOMAIN e.pieces :
     /\ e.pieces[i].color = color /\ isAlive(e.pieces[i])
     /\ getPieceAt(e.squares, e.pieces[i].x, e.pieces[i].y) = i}

\* The trap condition: the side has no legal move on any living piece and its
\* King is in check.
isTrapped(e, color) ==
  /\ isKingInCheck(color, Grid(e.squares, e.pieces)) = Returned(TRUE)
  /\ \A i \in livingOf(e, color) :
        getValidMoves(e.pieces[i], Grid(e.squares, e.pieces)) = Returned(<<>>)

\* endTurn's buff tick: the buffs of the newly active side's pieces
tickSide(e) ==
  [e EXCEPT !.pieces = [i \in DOMAIN e.pieces |->
                          IF e.pieces[i].color = e.currentTurn
                          THEN tickBuffs(e.pieces[i]) ELSE e.pieces[i]]]

\* Mutation: the trap is evaluated whether or not the side's flag is left.
evaluateTrapIgnoresFlag(e, rs) ==
  IF isTrapped(e, e.currentTurn)
  THEN [e EXCEPT !.gameStatus = KING_RESCUE_PENDING,
                 !.combatLog = e.combatLog \o << LogKingTrapped >>]
  ELSE e

\* endTurn's trap evaluation for the newly active side
evaluateTrap(e, rs) ==
  IF rs.available[e.currentTurn] /\ isTrapped(e, e.currentTurn)
  THEN [e EXCEPT !.gameStatus = KING_RESCUE_PENDING,
                 !.combatLog = e.combatLog \o << LogKingTrapped >>]
  ELSE e

\* What endTurn does after the counter and the active side changed.
rescueEndTurn(e, rs) == evaluateTrap(tickSide(e), rs)

\* executeMove with the rescue protocol's endTurn: the engine's executeMove,
\* then the rest of endTurn when the call reached it.
afterExecuteMove(e, rs, r) ==
  IF r.ret /\ r.e.turnCount # e.turnCount
  THEN [e |-> rescueEndTurn(r.e, rs), ret |-> r.ret]
  ELSE r

executeMoveRescue(e, rs, x, y) == afterExecuteMove(e, rs, executeMove(e, x, y))

\* activateAbility(kind): records the ability while a rescue is pending
activateAbility(e, rs, kind) ==
  IF e.gameStatus = KING_RESCUE_PENDING
  THEN [e |-> [e EXCEPT !.combatLog = e.combatLog \o << LogAbilityPrompt >>],
        rescue |-> [rs EXCEPT !.pending = kind]]
  ELSE [e |-> e, rescue |-> rs]

\* Teleport needs an empty square of the board.
teleportTarget(e, x, y) == OnBoard(x, y) /\ getPieceAt(e.squares, x, y) = 0

\* Swap needs a living ally that is not the King.
swapTarget(e, x, y) ==
  LET t == getPieceAt(e.squares, x, y)
  IN /\ t # 0
     /\ e.pieces[t].color = e.currentTurn
     /\ isAlive(e.pieces[t])
     /\ e.pieces[t].type # KING

\* Teleport: the King is put on (x, y), its move counter goes up.
teleportKing(e, king, x, y) ==
  [e EXCEPT !.squares = setPieceAt(setPieceAt(e.squares, e.pieces[king].x,
                                              e.pieces[king].y, 0), x, y, king),
            !.pieces = [e.pieces EXCEPT ![king] = moveTo(e.pieces[king], x, y)]]

\* Swap: the King and the ally exchange squares, both move counters go up.
swapKing(e, king, ally) ==
  [e EXCEPT !.squares = setPieceAt(setPieceAt(e.squares, e.pieces[king].x,
                                              e.pieces[king].y, ally),
                                   e.pieces[ally].x, e.pieces[ally].y, king),
            !.pieces = [e.pieces EXCEPT
                          ![king] = moveTo(e.pieces[king], e.pieces[ally].x,
                                           e.pieces[ally].y),
                          ![ally] = moveTo(e.pieces[ally], e.pieces[king].x,
                                           e.pieces[king].y)]]

\* After either ability: the King is buffed, the side's flag is used up, no
\* ability is pending, play resumes and the turn ends.
finishRescue(e, rs, king) ==
  [rescue |-> [available |-> [rs.available EXCEPT ![e.currentTurn] = FALSE],
               pending |-> NO_ABILITY],
   e |-> rescueEndTurn(endTurn([e EXCEPT !.pieces[king] = addBuff(e.pieces[king], RescueBuff),
                                         !.gameStatus = IN_PROGRESS]),
                       [available |-> [rs.available EXCEPT ![e.currentTurn] = FALSE],
                        pending |-> NO_ABILITY]),
   ret |-> TRUE]

\* Mutation: Teleport lands on any square of the board, Swap takes any piece.
executeAbilityActionAnyTarget(e, rs, x, y) ==
  IF rs.pending = NO_ABILITY \/ kingOf(e, e.currentTurn) = 0 \/ ~OnBoard(x, y)
  THEN [e |-> e, rescue |-> rs, ret |-> FALSE]
  ELSE IF rs.pending = TELEPORT \/ getPieceAt(e.squares, x, y) = 0
  THEN finishRescue(teleportKing(e, kingOf(e, e.currentTurn), x, y), rs,
                    kingOf(e, e.currentTurn))
  ELSE finishRescue(swapKing(e, kingOf(e, e.currentTurn), getPieceAt(e.squares, x, y)),
                    rs, kingOf(e, e.currentTurn))

\* executeAbilityAction(x, y): the engine and the protocol after the call, and
\* the value returned
executeAbilityAction(e, rs, x, y) ==
  IF rs.pending = NO_ABILITY \/ kingOf(e, e.currentTurn) = 0
  THEN [e |-> e, rescue |-> rs, ret |-> FALSE]
  ELSE IF rs.pending = TELEPORT
  THEN IF teleportTarget(e, x, y)
       THEN finishRescue(teleportKing(e, kingOf(e, e.currentTurn), x, y), rs,
                         kingOf(e, e.currentTurn))
       ELSE [e |-> e, rescue |-> rs, ret |-> FALSE]
  ELSE IF swapTarget(e, x, y)
       THEN finishRescue(swapKing(e, kingOf(e, e.currentTurn), getPieceAt(e.squares, x, y)),
                         rs, kingOf(e, e.currentTurn))
       ELSE [e |-> e, rescue |-> rs, ret |-> FALSE]

\* resetGame with the protocol: the engine's resetGame, and both flags restored
resetGameRescue(e, rs, terr) == [e |-> resetGame(e, terr), rescue |-> RescueReady]

\* Two White Rooks and the White King against the cornered Black King and a
\* Black Pawn; every King has moved.
RescuePosition ==
  << moved(NewPiece(KING, WHITE, 2, 1, 1)),
     moved(NewPiece(ROOK, WHITE, 7, 5, 2)),
     moved(NewPiece(ROOK, WHITE, 7, 6, 3)),
     moved(NewPiece(KING, BLACK, 0, 0, 4)),
     moved(NewPiece(PAWN, BLACK, 7, 1, 5)) >>

ArrangeRescue ==
  /\ Fresh(Engine)
  /\ rescue = RescueReady
  /\ SetEngine([Engine EXCEPT !.squares = placeAll(RescuePosition),
                              !.pieces = RescuePosition])
  /\ lastCall' = [op |-> "arrange", ret |-> "returned"]
  /\ UNCHANGED << probe, twin, rescue, timers >>

ExecuteMoveRescue(x, y) ==
  \E r \in {executeMoveRescue(Engine, rescue, x, y)} :
     /\ r.ret => Len(moveHistory) < MaxMoves
     /\ SetEngine(r.e)
     /\ lastCall' = [op |-> "executeMove", ret |-> IF r.ret THEN "true" ELSE "false"]
     /\ UNCHANGED << probe, twin, rescue, timers >>

\* Most ability prompts in the log.
MaxPrompts == 2

ActivateAbility(kind) ==
  \E r \in {activateAbility(Engine, rescue, kind)} :
     /\ Len(SelectSeq(r.e.combatLog, LAMBDA l : l = LogAbilityPrompt)) <= MaxPrompts
     /\ SetEngine(r.e)
     /\ rescue' = r.rescue
     /\ lastCall' = [op |-> "activateAbility", ret |-> "returned"]
     /\ UNCHANGED << probe, twin, timers >>

ExecuteAbilityAction(x, y) ==
  \E r \in {executeAbilityAction(Engine, rescue, x, y)} :
     /\ SetEngine(r.e)
     /\ rescue' = r.rescue
     /\ lastCall' = [op |-> "executeAbilityAction",
                     ret |-> IF r.ret THEN "true" ELSE "false"]
     /\ UNCHANGED << probe, twin, timers >>

ResetGameRescue ==
  /\ \E terr \in TerrainMaps :
        \E r \in {resetGameRescue(Engine, rescue, terr)} :
           SetEngine(r.e) /\ rescue' = r.rescue
  /\ lastCall' = [op |-> "resetGame", ret |-> "returned"]
  /\ UNCHANGED << probe, twin, timers >>

\* The squares given to executeAbilityAction: the Black King's corner, the
\* squares next to it on its file, the Black Pawn's corner, and a column off
\* the board.
AbilityXs == {0, 7, 8}
AbilityYs == {0, 1, 2}

NextRescue ==
  \/ ArrangeRescue
  \/ \E x \in Inputs, y \in Inputs : SelectPiece(x, y)
  \/ DeselectPiece
  \/ \E x \in Inputs, y \in Inputs : ExecuteMoveRescue(x, y)
  \/ \E kind \in {TELEPORT, SWAP} : ActivateAbility(kind)
  \/ \E x \in AbilityXs, y \in AbilityYs : ExecuteAbilityAction(x, y)
  \/ ResetGameRescue

SpecRescue == Init /\ [][NextRescue]_vars

(***************************************************************************)
(* Properties of the rescue protocol (SpecRescue)                          *)
(***************************************************************************)
AbilityAccepted == lastCall'.op = "executeAbilityAction" /\ lastCall'.ret = "true"
AbilityRejected == lastCall'.op = "executeAbilityAction" /\ lastCall'.ret = "false"

\* (x, y) is a square of the board that holds a piece.
Held(x, y) == x \in Coord /\ y \in Coord /\ squares[y][x] # 0

\* (x, y) holds a living piece of the active side that is not a King.
HoldsAlly(x, y) ==
  /\ Held(x, y)
  /\ pieces[squares[y][x]].color = currentTurn
  /\ pieces[squares[y][x]].stats.hp > 0
  /\ pieces[squares[y][x]].type # KING

\* C12: in every reachable state, executeAbilityAction(x, y) returns false and
\* the engine and the protocol it was given when no ability is activated, when
\* Teleport is pending and (x, y) holds a piece, and when Swap is pending and
\* (x, y) does not hold a living allied piece other than the King; and the step
\* of a call that returned false changes no field of the engine nor the
\* protocol's flags and pending ability.
C12_InvalidAbilityActionFails ==
  /\ [](\A x \in Inputs, y \in Inputs :
          (\/ rescue.pending = NO_ABILITY
           \/ rescue.pending = TELEPORT /\ Held(x, y)
           \/ rescue.pending = SWAP /\ ~HoldsAlly(x, y))
            => executeAbilityAction(Engine, rescue, x, y)
                 = [e |-> Engine, rescue |-> rescue, ret |-> FALSE])
  /\ [][AbilityRejected
          => UNCHANGED << squares, pieces, terrain, currentTurn, turnCount, gameStatus,
                          gameMode, selectedPiece, validMoves, combatLog, moveHistory,
                          rescue >>]_vars
  /\ [][AbilityAccepted
          => (\/ rescue.pending = TELEPORT
                   /\ \E x \in Coord, y \in Coord :
                         squares[y][x] = 0 /\ squares'[y][x] # 0
              \/ rescue.pending = SWAP
                   /\ \E x \in Coord, y \in Coord :
                         HoldsAlly(x, y) /\ squares'[y][x] # squares[y][x])]_vars

\* A Swap aimed at a square that holds no ally was just refused while the
\* rescue was pending.
C12_Witness ==
  /\ lastCall = [op |-> "executeAbilityAction", ret |-> "false"]
  /\ gameStatus = KING_RESCUE_PENDING
  /\ rescue.pending = SWAP
  /\ rescue.available[BLACK]

\* C13: once a side's flag is used it stays used by every call but resetGame;
\* an accepted executeAbilityAction uses the flag of the side that was
\* rescued; and the status becomes, and is, rescue-pending only for a side
\* whose flag is still available.
C13_RescueOneShot ==
  /\ [][\A c \in {WHITE, BLACK} :
          (~rescue.available[c] /\ lastCall'.op # "resetGame")
            => ~rescue'.available[c]]_vars
  /\ [][AbilityAccepted => ~rescue'.available[currentTurn]]_vars
  /\ [](gameStatus = KING_RESCUE_PENDING => rescue.available[currentTurn])
  /\ [][(gameStatus' = KING_RESCUE_PENDING /\ gameStatus # KING_RESCUE_PENDING)
          => rescue.available[currentTurn']]_vars

\* Black was rescued earlier in the game and is trapped again: in check with
\* no legal move, its flag used, and play goes on.
C13_Witness ==
  /\ ~rescue.available[BLACK]
  /\ currentTurn = BLACK
  /\ gameStatus = IN_PROGRESS
  /\ InCheck(squares, pieces, BLACK)
  /\ NoLegalMove(squares, pieces, BLACK)

\* The kinds of the home rank, from column 0 to column 7.
HomeRank == << ROOK, KNIGHT, BISHOP, QUEEN, KING, BISHOP, KNIGHT, ROOK >>

\* The square holds a piece of the kind and colour that stands at (x, y) with
\* the full HP of its kind, unmoved and without buffs.
HomePiece(sq, pcs, x, y, type, color) ==
  /\ sq[y][x] # 0
  /\ pcs[sq[y][x]].type = type /\ pcs[sq[y][x]].color = color
  /\ pcs[sq[y][x]].x = x /\ pcs[sq[y][x]].y = y
  /\ pcs[sq[y][x]].stats.hp = PIECE_MAX_HP(type)
  /\ pcs[sq[y][x]].stats.maxHP = PIECE_MAX_HP(type)
  /\ pcs[sq[y][x]].moveCount = 0
  /\ pcs[sq[y][x]].buffs = <<>>

\* The 32 pieces stand in the home layout, each square with its own piece.
HomeLayout(sq, pcs) ==
  /\ \A x \in Coord :
        /\ HomePiece(sq, pcs, x, 7, HomeRank[x + 1], WHITE)
        /\ HomePiece(sq, pcs, x, 6, PAWN, WHITE)
        /\ HomePiece(sq, pcs, x, 0, HomeRank[x + 1], BLACK)
        /\ HomePiece(sq, pcs, x, 1, PAWN, BLACK)
        /\ \A y \in 2..5 : sq[y][x] = 0
  /\ Cardinality({sq[y][x] : x \in Coord, y \in {0, 1, 6, 7}}) = 32

\* C14: after resetGame, from whatever state it was called in, the 32 pieces
\* stand in the home layout with full HP and move counter 0, White is to move,
\* the status is in-progress, the turn counter is 1, nothing is selected, the
\* log and the move history are empty and both sides' rescue flags are
\* available.
C14_ResetYieldsInitialState ==
  [][lastCall'.op = "resetGame"
       => /\ HomeLayout(squares', pieces')
          /\ currentTurn' = WHITE
          /\ gameStatus' = IN_PROGRESS
          /\ turnCount' = 1
          /\ selectedPiece' = 0 /\ validMoves' = <<>>
          /\ combatLog' = <<>> /\ moveHistory' = <<>>
          /\ rescue'.available[WHITE] /\ rescue'.available[BLACK]
          /\ rescue'.pending = NO_ABILITY]_vars

\* resetGame has just returned.
C14_Witness ==
  /\ lastCall = [op |-> "resetGame", ret |-> "returned"]
  /\ HomeLayout(squares, pieces)
  /\ turnCount = 1

\* C22: the check test ends on every board, so every selectPiece call
\* returns, the calls on the standard layout with both Kings unmoved on their
\* home ranks included.
C22_CheckTestTerminates == lastCall.op = "selectPiece" => lastCall.ret = "returned"

\* C17: in every combat resolved by executeMove, a defender standing on a
\* Forest tile receives the damage of the same matchup off Forest computed
\* with its defense plus 3 (at least 1).
C17_ForestDefenseInEngine ==
  [][(Accepted /\ LastRecord.combatResult # <<>>
        /\ terrain[LastRecord.toY][LastRecord.toX] = FOREST)
       => LastRecord.combatResult[1].attackDamage
            = calculateDamage(pieces[squares[LastRecord.fromY][LastRecord.fromX]],
                              [pieces[squares[LastRecord.toY][LastRecord.toX]]
                                 EXCEPT !.stats.def = @ + 3],
                              NoBoard)]_vars

(***************************************************************************)
(* The object store.  getValidMoves and AI.chooseMove work on objects the  *)
(* engine also holds; to see what they write, pieces, their stats objects  *)
(* and the row arrays of a board are kept in a store and named by their    *)
(* index in it.  A board's squares array is the function from y to the     *)
(* reference of its row.  The objects allocated by a call are dropped when *)
(* the call's last reference to them is (release).                         *)
(***************************************************************************)
deref(st, r) == [st.pcs[r] EXCEPT !.stats = st.stats[st.pcs[r].stats]]

\* board.squares as the validator reads it
ViewH(st, b) ==
  [y \in Coord |-> [x \in Coord |->
     IF st.rows[b[y]][x] = 0 THEN Null ELSE deref(st, st.rows[b[y]][x])]]

mark(st) == [pcs |-> Len(st.pcs), stats |-> Len(st.stats), rows |-> Len(st.rows)]

\* The store without the objects allocated since the mark m was taken.
release(st, m) ==
  [pcs |-> [i \in 1..m.pcs |-> st.pcs[i]], stats |-> [i \in 1..m.stats |-> st.stats[i]],
   rows |-> [i \in 1..m.rows |-> st.rows[i]]]

writeSquare(st, b, x, y, v) == [st EXCEPT !.rows[b[y]][x] = v]

\* Mutation: the clone keeps the stats object of the original.
cloneSharesStats(st, r) ==
  [st |-> [st EXCEPT !.pcs = Append(st.pcs, st.pcs[r])],
   ref |-> Len(st.pcs) + 1]

\* piece.clone(): a new Piece whose stats is a new object with the same
\* content (the stats object its constructor made is dropped)
cloneH(st, r) ==
  [st |-> [st EXCEPT !.stats = Append(st.stats, st.stats[st.pcs[r].stats]),
                     !.pcs = Append(st.pcs, [st.pcs[r] EXCEPT !.stats = Len(st.stats) + 1])],
   ref |-> Len(st.pcs) + 1]

\* board.map(row => [...row]): eight new rows with the same content
copyRows(st, b) ==
  [st |-> [st EXCEPT !.rows = st.rows \o [k \in 1..8 |-> st.rows[b[k - 1]]]],
   b |-> [y \in Coord |-> Len(st.rows) + y + 1]]

\* simulateMove once the rows are copied (t) and the piece is cloned (c)
placeClone(t, c, piece, move) ==
  [st |-> writeSquare([writeSquare(c.st, t.b, piece.x, piece.y, 0)
                         EXCEPT !.pcs[c.ref].x = move.x, !.pcs[c.ref].y = move.y],
                      t.b, move.x, move.y, c.ref),
   b |-> t.b]

simulateClone(t, r, piece, move) == placeClone(t, cloneH(t.st, r), piece, move)

\* simulateMove(board, piece, move) on the store
simulateMoveH(st, b, r, move) == simulateClone(copyRows(st, b), r, st.pcs[r], move)

\* The filter's step for one potential move: simulateMove, the check test,
\* and the temporary board dropped
simulateNext(s, b, r, move) == release(simulateMoveH(s, b, r, move).st, mark(s))

RECURSIVE simulateAll(_, _, _, _, _)
\* The filter of getValidMoves: the store after the first i potential moves
simulateAll(st, b, r, moves, i) ==
  IF i = 0 THEN st
  ELSE simulateNext(simulateAll(st, b, r, moves, i - 1), b, r, moves[i])

\* getValidMoves when getPotentialMoves gave potentialMoves
filterMovesH(st, b, r, potentialMoves, res) ==
  IF potentialMoves.div THEN [st |-> st, res |-> res]
  ELSE [st |-> simulateAll(st, b, r, potentialMoves.val, Len(potentialMoves.val)),
        res |-> res]

\* getValidMoves(piece, board.squares) on the store: the store after the call
\* and the list returned
getValidMovesH(st, b, r) ==
  filterMovesH(st, b, r, getPotentialMoves(deref(st, r), ViewH(st, b)),
               getValidMoves(deref(st, r), ViewH(st, b)))

\* board.getPiecesByColor(color) on the store: references in scan order
piecesByColorH(st, b, color) ==
  LET on == SelectSeq(AllSquares,
                      LAMBDA q : st.rows[b[q.y]][q.x] # 0
                                   /\ st.pcs[st.rows[b[q.y]][q.x]].color = color)
  IN [i \in 1..Len(on) |-> st.rows[b[on[i].y]][on[i].x]]

\* The occupied squares of a board in scan order.
occupiedH(st, b) == SelectSeq(AllSquares, LAMBDA q : st.rows[b[q.y]][q.x] # 0)

RECURSIVE cloneAll(_, _, _, _)
\* piece.clone() for the piece on each occupied square, in scan order
cloneAll(st, b, occ, i) ==
  IF i > Len(occ) THEN st
  ELSE cloneAll(cloneH(st, st.rows[b[occ[i].y]][occ[i].x]).st, b, occ, i + 1)

\* Board.clone once the pieces are cloned (st1): the new rows hold the clones,
\* the k-th occupied square the k-th clone
cloneRows(st, st1, b, occ) ==
  [st |-> [st1 EXCEPT !.rows = st1.rows \o
             [k \in 1..8 |-> [x \in Coord |->
                IF st.rows[b[k - 1]][x] = 0 THEN 0
                ELSE Len(st.pcs)
                       + (CHOOSE n \in 1..Len(occ) : occ[n].x = x /\ occ[n].y = k - 1)]]],
   b |-> [y \in Coord |-> Len(st.rows) + y + 1]]

\* Board.clone(): new rows, a clone of each piece (the Board and the 32 pieces
\* its constructor builds first are dropped; the terrain is copied)
boardCloneH(st, b) == cloneRows(st, cloneAll(st, b, occupiedH(st, b), 1), b, occupiedH(st, b))

\* Board.movePiece(fromX, fromY, toX, toY)
movePieceH(st, b, fromX, fromY, toX, toY) ==
  IF st.rows[b[fromY]][fromX] = 0 THEN st
  ELSE writeSquare(writeSquare([st EXCEPT !.pcs[st.rows[b[fromY]][fromX]] =
                                   moveTo(st.pcs[st.rows[b[fromY]][fromX]], toX, toY)],
                               b, fromX, fromY, 0),
                   b, toX, toY, st.rows[b[fromY]][fromX])

\* The writes of resolveCombat: takeDamage sets hp in the stats object of the
\* defender, then of the attacker.
combatWrites(st, a, d, result) ==
  [st |-> [[st EXCEPT !.stats[st.pcs[d].stats].hp = result.defender.stats.hp]
             EXCEPT !.stats[st.pcs[a].stats].hp = result.attacker.stats.hp],
   result |-> result]

\* resolveCombat(attacker, defender) on the store
resolveCombatH(st, a, d) ==
  combatWrites(st, a, d, resolveCombat(deref(st, a), deref(st, d), NoBoard))

(***************************************************************************)
(* AI.  A score is kept as an integer: the source's score times            *)
(* scale = 2 * (number of the side's pieces on the board), the denominator *)
(* of its only fraction (avgDistance * 0.5).                               *)
(***************************************************************************)
Manhattan(p, move) == Abs(p.x - move.x) + Abs(p.y - move.y)

RECURSIVE SumSeq(_)
SumSeq(ns) == IF ns = <<>> THEN 0 ELSE Head(ns) + SumSeq(Tail(ns))

RECURSIVE MinSeq(_)
MinSeq(ns) == IF Len(ns) = 1 THEN Head(ns) ELSE Min(Head(ns), MinSeq(Tail(ns)))

\* The bonus for killing a piece of the type.
killBonus(type) ==
  CASE type = QUEEN  -> 200
    [] type = ROOK   -> 150
    [] type = BISHOP -> 100
    [] type = KNIGHT -> 100
    [] type = KING   -> 1000
    [] OTHER         -> 0

\* evaluateMove, the attack branch, from the combat result
attackScore(result, targetType) ==
  result.attackDamage * 2 - result.defenderCounterDamage
    + (IF ~result.defenderAlive THEN 100 + killBonus(targetType) ELSE 0)

\* evaluateMove, the other branch, times scale: (7 - distance to the closest
\* enemy) * 5 when there is an enemy, minus avgDistance * 0.5
quietScore(st, tb, color, move, scale) ==
  LET enemies == piecesByColorH(st, tb, Other(color))
      own == piecesByColorH(st, tb, color)
      near == IF Len(enemies) > 0
              THEN (7 - MinSeq([i \in 1..Len(enemies) |->
                                  Manhattan(st.pcs[enemies[i]], move)])) * 5
              ELSE 0
      total == SumSeq([i \in 1..Len(own) |-> Manhattan(st.pcs[own[i]], move)])
  IN near * scale - (total * scale) \div (2 * Max(Len(own), 1))

RECURSIVE exposedFrom(_, _, _, _, _)
\* isExposedToAttack, the loop step once getValidMoves gave g for enemy i
exposedStep(g, tb, tp, enemies, i) ==
  IF g.res.div THEN [st |-> g.st, val |-> FALSE, div |-> TRUE]
  ELSE IF SomeMove(g.res.val, g.st.pcs[tp].x, g.st.pcs[tp].y)
  THEN [st |-> g.st, val |-> TRUE, div |-> FALSE]
  ELSE exposedFrom(g.st, tb, tp, enemies, i + 1)

\* isExposedToAttack, the loop from enemy i on
exposedFrom(st, tb, tp, enemies, i) ==
  IF i > Len(enemies) THEN [st |-> st, val |-> FALSE, div |-> FALSE]
  ELSE IF ~isAlive(deref(st, enemies[i])) THEN exposedFrom(st, tb, tp, enemies, i + 1)
  ELSE exposedStep(getValidMovesH(st, tb, enemies[i]), tb, tp, enemies, i)

isExposedToAttackH(st, tb, tp) ==
  exposedFrom(st, tb, tp, piecesByColorH(st, tb, Other(st.pcs[tp].color)), 1)

\* evaluateMove from the exposure test on: the temporary board is dropped
exposurePenalty(ex, score, scale, m) ==
  [st |-> release(ex.st, m), div |-> ex.div,
   score |-> IF ex.val THEN score - 50 * scale ELSE score]

\* evaluateMove, the attack branch after resolveCombat returned c
evalAttack(c, tb, tp, targetType, scale, m) ==
  exposurePenalty(isExposedToAttackH(c.st, tb, tp),
                  attackScore(c.result, targetType) * scale, scale, m)

\* evaluateMove after testBoard.movePiece: st holds the moved test piece tp
evalMoved(st, tb, tp, target, move, scale, m) ==
  IF move.isAttack /\ target # 0
  THEN evalAttack(resolveCombatH(st, tp, target), tb, tp, st.pcs[target].type, scale, m)
  ELSE exposurePenalty(isExposedToAttackH(st, tb, tp),
                       quietScore(st, tb, st.pcs[tp].color, move, scale), scale, m)

\* evaluateMove once the board is cloned (c)
evalOnClone(c, piece, move, scale, m) ==
  evalMoved(movePieceH(c.st, c.b, piece.x, piece.y, move.x, move.y), c.b,
            c.st.rows[c.b[piece.y]][piece.x], c.st.rows[c.b[move.y]][move.x],
            move, scale, m)

\* evaluateMove(piece, move, board): the store after the call and the score
evaluateMoveH(st, b, r, move, scale) ==
  evalOnClone(boardCloneH(st, b), st.pcs[r], move, scale, mark(st))

NoMove == [fromX |-> 0 - 1, fromY |-> 0 - 1, toX |-> 0 - 1, toY |-> 0 - 1, score |-> 0]

RECURSIVE bestFrom(_, _, _)
\* allMoves.reduce((best, current) => current.score > best.score ? current : best)
bestFrom(all, i, best) ==
  IF i > Len(all) THEN best
  ELSE bestFrom(all, i + 1, IF all[i].score > best.score THEN all[i] ELSE best)

bestMove(all) == IF Len(all) = 0 THEN NoMove ELSE bestFrom(all, 2, all[1])

RECURSIVE scoreMoves(_, _, _, _, _, _, _)
\* chooseMove, the inner loop once evaluateMove gave ev for move j
scoreStep(ev, b, r, moves, j, scale, all) ==
  IF ev.div THEN [st |-> ev.st, div |-> TRUE, all |-> all]
  ELSE scoreMoves(ev.st, b, r, moves, j + 1, scale,
                  Append(all, [fromX |-> ev.st.pcs[r].x, fromY |-> ev.st.pcs[r].y,
                               toX |-> moves[j].x, toY |-> moves[j].y,
                               score |-> ev.score]))

\* chooseMove, the inner loop from move j on
scoreMoves(st, b, r, moves, j, scale, all) ==
  IF j > Len(moves) THEN [st |-> st, div |-> FALSE, all |-> all]
  ELSE scoreStep(evaluateMoveH(st, b, r, moves[j], scale), b, r, moves, j, scale, all)

RECURSIVE chooseFrom(_, _, _, _, _, _)
\* chooseMove, the outer loop once the moves of piece i are scored (s)
chooseScored(s, b, own, i, scale) ==
  IF s.div THEN s ELSE chooseFrom(s.st, b, own, i + 1, scale, s.all)

\* chooseMove, the outer loop once getValidMoves gave g for piece i
choosePiece(g, b, own, i, scale, all) ==
  IF g.res.div THEN [st |-> g.st, div |-> TRUE, all |-> all]
  ELSE chooseScored(scoreMoves(g.st, b, own[i], g.res.val, 1, scale, all),
                    b, own, i, scale)

\* chooseMove, the outer loop from piece i on
chooseFrom(st, b, own, i, scale, all) ==
  IF i > Len(own) THEN [st |-> st, div |-> FALSE, all |-> all]
  ELSE IF ~isAlive(deref(st, own[i])) THEN chooseFrom(st, b, own, i + 1, scale, all)
  ELSE choosePiece(getValidMovesH(st, b, own[i]), b, own, i, scale, all)

\* chooseMove from the scored list: null (NoMove) when it is empty
chosen(c, scale) ==
  [st |-> c.st, res |-> [div |-> c.div, val |-> bestMove(c.all), scale |-> scale]]

chooseOver(st, b, own) ==
  chosen(chooseFrom(st, b, own, 1, 2 * Max(Len(own), 1), <<>>), 2 * Max(Len(own), 1))

\* AI.chooseMove(board, color) on the store: the store after the call and the
\* move returned, its score times res.scale
chooseMoveH(st, b, color) == chooseOver(st, b, piecesByColorH(st, b, color))

(***************************************************************************)
(* SpecFrame: getValidMoves and AI.chooseMove applied to the engine's      *)
(* board.  The engine's pieces and rows are the objects of the store; what *)
(* the store holds after the call is what the engine holds.                *)
(***************************************************************************)
\* The store of the objects the engine's board holds.
storeOf(sq, pcs) ==
  [pcs |-> [i \in DOMAIN pcs |-> [pcs[i] EXCEPT !.stats = i]],
   stats |-> [i \in DOMAIN pcs |-> pcs[i].stats],
   rows |-> [k \in 1..8 |-> sq[k - 1]]]

\* board.squares of the engine's board in the store
LiveBoard == [y \in Coord |-> y + 1]

piecesIn(st, n) == [i \in 1..n |-> deref(st, i)]

squaresIn(st) == [y \in Coord |-> st.rows[LiveBoard[y]]]

\* Hit points a drawn piece may be left with.
WoundedHP == 5

\* The Black King cornered and in check by the Rook, with no legal move.
MatedPosition ==
  << moved(NewPiece(KING, WHITE, 2, 1, 1)),
     moved(NewPiece(ROOK, WHITE, 0, 5, 2)),
     moved(NewPiece(KING, BLACK, 0, 0, 3)) >>

\* The standard layout, the positions, and each position with one of its
\* pieces wounded.
FramePositions ==
  {initialPieces, MatedPosition, RescuePosition} \cup {Positions[k] : k \in DOMAIN Positions}
    \cup UNION {{[Positions[k] EXCEPT ![i] = withHP(Positions[k][i], WoundedHP)] :
                   i \in DOMAIN Positions[k]} : k \in DOMAIN Positions}

InitFrame ==
  /\ \E pcs \in FramePositions, e \in {newEngine(SINGLE_PLAYER, NormalTerrain)} :
       /\ squares = placeAll(pcs)
       /\ pieces = pcs
       /\ terrain = e.terrain
       /\ currentTurn = e.currentTurn
       /\ gameStatus = e.gameStatus
       /\ gameMode = e.gameMode
       /\ selectedPiece = e.selectedPiece
       /\ validMoves = e.validMoves
       /\ combatLog = e.combatLog
       /\ moveHistory = e.moveHistory
       /\ turnCount = e.turnCount
  /\ lastCall = [op |-> "constructor", ret |-> "returned"]
  /\ twin = NoTwin
  /\ rescue = RescueReady
  /\ timers = 0
  /\ probe = NoProbe

\* The engine after a call on its board left the store g.st
FrameCall(fn, arg, g) ==
  /\ probe' = [fn |-> fn, arg |-> arg, result |-> g.res,
               garbage |-> Len(g.st.pcs) - Len(pieces)]
  /\ pieces' = piecesIn(g.st, Len(pieces))
  /\ squares' = squaresIn(g.st)
  /\ lastCall' = [op |-> fn, ret |-> IF g.res.div THEN "threw" ELSE "returned"]
  /\ UNCHANGED << terrain, currentTurn, gameStatus, gameMode, selectedPiece,
                  validMoves, combatLog, moveHistory, turnCount, twin, rescue,
                  timers >>

ApplyGetValidMovesH(i) ==
  /\ squares[pieces[i].y][pieces[i].x] = i
  /\ \E g \in {getValidMovesH(storeOf(squares, pieces), LiveBoard, i)} :
       FrameCall("getValidMoves", i, g)

ApplyChooseMoveH(color) ==
  \E g \in {chooseMoveH(storeOf(squares, pieces), LiveBoard, color)} :
     FrameCall("chooseMove", color, g)

NextFrame ==
  \/ \E i \in DOMAIN pieces : ApplyGetValidMovesH(i)
  \/ \E color \in {WHITE, BLACK} : ApplyChooseMoveH(color)

SpecFrame == InitFrame /\ [][NextFrame]_vars

\* C16: after getValidMoves or AI.chooseMove returns, every square of the live
\* board holds the same piece and every live piece has the same position, hit
\* points, moveCount and buffs as before the call.
C16_SimulationLeavesLiveState ==
  [][(lastCall'.op \in {"getValidMoves", "chooseMove"} /\ lastCall'.ret = "returned")
       => /\ squares' = squares
          /\ \A i \in DOMAIN pieces :
               /\ pieces'[i].x = pieces[i].x /\ pieces'[i].y = pieces[i].y
               /\ pieces'[i].stats.hp = pieces[i].stats.hp
               /\ pieces'[i].moveCount = pieces[i].moveCount
               /\ pieces'[i].buffs = pieces[i].buffs]_vars

\* AI.chooseMove has returned a move that attacks a piece (its evaluation
\* resolved a combat on the cloned board).
C16_Witness ==
  /\ probe.fn = "chooseMove"
  /\ ~probe.result.div
  /\ probe.result.val # NoMove
  /\ squares[probe.result.val.toY][probe.result.val.toX] # 0
  /\ pieces[squares[probe.result.val.toY][probe.result.val.toX]].color # probe.arg

\* The legal moves of piece r, each with the piece, in getValidMoves order
\* (none when the call does not return).
legalOfPiece(r, res) ==
  IF res.div THEN <<>> ELSE [j \in 1..Len(res.val) |-> [r |-> r, move |-> res.val[j]]]

\* The legal moves of a side in the order chooseMove enumerates them: the
\* living pieces in getPiecesByColor order, each one's moves in order.
legalOf(color) ==
  Flatten([k \in 1..Len(getPiecesByColor(squares, pieces, color)) |->
             IF isAlive(pieces[getPiecesByColor(squares, pieces, color)[k]])
             THEN legalOfPiece(getPiecesByColor(squares, pieces, color)[k],
                               getValidMoves(pieces[getPiecesByColor(squares, pieces, color)[k]],
                                             Grid(squares, pieces)))
             ELSE <<>>])

\* The score evaluateMove gives the k-th legal move, on the scale of the call.
scoreOf(legal, k, scale) ==
  evaluateMoveH(storeOf(squares, pieces), LiveBoard, legal[k].r, legal[k].move, scale).score

\* The k-th legal move is the one returned.
isReturned(legal, k, val) ==
  /\ pieces[legal[k].r].x = val.fromX /\ pieces[legal[k].r].y = val.fromY
  /\ legal[k].move.x = val.toX /\ legal[k].move.y = val.toY

\* What C21 asks of a chooseMove call for color that gave res, the side's
\* legal moves being legal and their scores scores.
bestFirst(res, legal, scores) ==
  /\ ~res.div
  /\ (res.val = NoMove) <=> (Len(legal) = 0)
  /\ res.val # NoMove =>
       \E k \in 1..Len(legal) :
          /\ isReturned(legal, k, res.val)
          /\ scores[k] = res.val.score
          /\ \A j \in 1..Len(legal) : scores[j] <= scores[k]
          /\ \A j \in 1..(k - 1) : scores[j] < scores[k]

\* C21: AI.chooseMove returns a legal move of the given side whose score is
\* maximal among all that side's legal moves, the first such move in
\* enumeration order when scores tie, and none exactly when the side has no
\* legal move.
C21_ChooseMoveBestFirst ==
  probe.fn = "chooseMove"
    => \E legal \in {legalOf(probe.arg)} :
          bestFirst(probe.result, legal,
                    [k \in 1..Len(legal) |-> scoreOf(legal, k, probe.result.scale)])

\* The same of the calls that returned.
C21_WhenReturned ==
  (probe.fn = "chooseMove" /\ ~probe.result.div)
    => \E legal \in {legalOf(probe.arg)} :
          bestFirst(probe.result, legal,
                    [k \in 1..Len(legal) |-> scoreOf(legal, k, probe.result.scale)])

(***************************************************************************)
(* SpecEffects: a game on the mixed terrain in which the tile effects are  *)
(* applied to the board's living pieces between the engine's calls.        *)
(***************************************************************************)
LogFire == "took 10 FIRE damage!"
LogWater == "healed 5 HP in Water."

\* applyEnvironmentalEffects, the effect on one piece
tileEffect(p, tile) ==
  IF tile = FIRE THEN takeDamage(p, 10)
  ELSE IF tile = WATER /\ p.stats.hp < p.stats.maxHP THEN heal(p, 5)
  ELSE p

\* applyEnvironmentalEffects, the line pushed for one piece (none: <<>>)
tileLine(p, tile) ==
  IF tile = FIRE THEN << [line |-> LogFire, type |-> p.type] >>
  ELSE IF tile = WATER /\ p.stats.hp < p.stats.maxHP
  THEN << [line |-> LogWater, type |-> p.type] >>
  ELSE <<>>

\* applyEnvironmentalEffects(pieces, board): the pieces after the call and
\* the log returned
applyEnvironmentalEffects(alive, terr, pcs) ==
  [pieces |-> [i \in DOMAIN pcs |->
                 IF \E k \in 1..Len(alive) : alive[k] = i
                 THEN tileEffect(pcs[i], getTileType(terr, pcs[i].x, pcs[i].y))
                 ELSE pcs[i]],
   log |-> Flatten([k \in 1..Len(alive) |->
                      tileLine(pcs[alive[k]],
                               getTileType(terr, pcs[alive[k]].x, pcs[alive[k]].y))])]

\* A White Pawn on the Water tile, lightly wounded; a wounded Black Pawn on
\* the Fire tile and a Black Pawn on the Forest tile of the mixed terrain.
MarshPosition ==
  << NewPiece(KING, WHITE, 4, 7, 1),
     withHP(NewPiece(PAWN, WHITE, 3, 4, 2), 18),
     moved(NewPiece(KING, BLACK, 4, 0, 3)),
     withHP(NewPiece(PAWN, BLACK, 3, 3, 4), 15),
     NewPiece(PAWN, BLACK, 4, 3, 5) >>

ArrangeMarsh ==
  /\ Fresh(Engine)
  /\ SetEngine([Engine EXCEPT !.squares = placeAll(MarshPosition),
                              !.pieces = MarshPosition])
  /\ lastCall' = [op |-> "arrange", ret |-> "returned"]
  /\ UNCHANGED << probe, twin, rescue, timers >>

ApplyEnvironmentalEffects ==
  \E r \in {applyEnvironmentalEffects(getAlivePieces(squares, pieces), terrain, pieces)} :
     /\ pieces' = r.pieces
     /\ lastCall' = [op |-> "applyEnvironmentalEffects", ret |-> r.log]
     /\ UNCHANGED << squares, terrain, currentTurn, gameStatus, gameMode, selectedPiece,
                     validMoves, combatLog, moveHistory, turnCount, probe, twin, rescue,
                     timers >>

NextEffects ==
  \/ ArrangeMarsh
  \/ \E x \in Inputs, y \in Inputs : SelectPiece(x, y)
  \/ DeselectPiece
  \/ \E x \in Inputs, y \in Inputs : ExecuteMove(x, y)
  \/ ApplyEnvironmentalEffects

SpecEffects == Init /\ [][NextEffects]_vars

\* C18: in every reachable state every piece has 0 <= hp <= maxHP, whatever
\* the sequence of combats, counter-attacks, Fire damage, Water healing and
\* King healing.
C18_HPWithinBounds ==
  \A i \in DOMAIN pieces : 0 <= pieces[i].stats.hp /\ pieces[i].stats.hp <= pieces[i].stats.maxHP

\* After a combat, the tile effects have left a piece on Fire with no hit
\* points and a piece on Water, wounded in the combat, with all of its own.
C18_Witness ==
  /\ lastCall.op = "applyEnvironmentalEffects"
  /\ Len(moveHistory) > 0
  /\ moveHistory[1].combatResult # <<>>
  /\ \E i \in DOMAIN pieces :
       /\ terrain[pieces[i].y][pieces[i].x] = FIRE
       /\ pieces[i].stats.hp = 0
  /\ \E i \in DOMAIN pieces :
       /\ terrain[pieces[i].y][pieces[i].x] = WATER
       /\ squares[pieces[i].y][pieces[i].x] = i
       /\ pieces[i].stats.hp = pieces[i].stats.maxHP

(***************************************************************************)
(* SpecGame: the engine with the rescue protocol, from every arranged      *)
(* position: plain moves, captures, failed attacks, castling, Teleport and *)
(* Swap all occur.                                                         *)
(***************************************************************************)
NextGame ==
  \/ \E i \in 1..Len(Positions) : Arrange(i)
  \/ ArrangeRescue
  \/ \E x \in Inputs, y \in Inputs : SelectPiece(x, y)
  \/ DeselectPiece
  \/ \E x \in Inputs, y \in Inputs : ExecuteMoveRescue(x, y)
  \/ \E kind \in {TELEPORT, SWAP} : ActivateAbility(kind)
  \/ \E x \in AbilityXs, y \in AbilityYs : ExecuteAbilityAction(x, y)
  \/ ResetGameRescue

SpecGame == Init /\ [][NextGame]_vars

\* The last call was an executeMove or executeAbilityAction that returned true.
Succeeded ==
  lastCall.op \in {"executeMove", "executeAbilityAction"} /\ lastCall.ret = "true"

\* C19: after every successful executeMove or executeAbilityAction has
\* returned, no square of the board references a piece whose hit points are 0.
C19_NoDeadPieceOnBoard ==
  Succeeded => \A x \in Coord, y \in Coord :
                  squares[y][x] # 0 => pieces[squares[y][x]].stats.hp > 0

\* An executeMove whose combat killed the defender has returned true.
C19_Witness ==
  /\ lastCall = [op |-> "executeMove", ret |-> "true"]
  /\ moveHistory[Len(moveHistory)].capturedPiece # 0
  /\ pieces[moveHistory[Len(moveHistory)].capturedPiece].stats.hp = 0

\* C20: in every reachable state, each square that holds a piece holds one
\* whose x and y are the square's, after plain moves, captures, failed
\* attacks, castling, Teleport and Swap.
C20_CoordinatesMatchSlot ==
  \A x \in Coord, y \in Coord :
     squares[y][x] # 0
       => pieces[squares[y][x]].x = x /\ pieces[squares[y][x]].y = y

\* The King has castled: it stands two columns from where it started, and the
\* Rook beside it.
C20_Witness ==
  /\ lastCall = [op |-> "executeMove", ret |-> "true"]
  /\ Abs(moveHistory[Len(moveHistory)].toX - moveHistory[Len(moveHistory)].fromX) = 2
  /\ InLog(combatLog, LogCastleKingside)
  /\ squares[7][6] # 0 /\ pieces[squares[7][6]].type = KING
  /\ squares[7][5] # 0 /\ pieces[squares[7][5]].type = ROOK

(***************************************************************************)
(* SpecAI: a single-player game.  endTurn hands executeAIMove to           *)
(* setTimeout when Black becomes the active side; the callback fires       *)
(* later, after any number of calls made in between.                       *)
(***************************************************************************)
\* endTurn's setTimeout, seen from the executeMove that returned r on engine
\* e: endTurn ran, the mode is single-player and the new active side is Black
schedules(e, r) ==
  /\ r.ret
  /\ r.e.turnCount # e.turnCount
  /\ r.e.gameMode = SINGLE_PLAYER
  /\ r.e.currentTurn = BLACK

isAIThinking(e) ==
  e.gameMode = SINGLE_PLAYER /\ e.currentTurn = BLACK /\ e.gameStatus = IN_PROGRESS

\* executeAIMove after selectPiece gave s: executeMove on the engine it left
aiExecute(s, r) ==
  [e |-> r.e, threw |-> FALSE, moved |-> r.ret, scheduled |-> schedules(s.e, r)]

\* executeAIMove after chooseMove gave a move: selectPiece, then executeMove
aiSelect(s, aiMove) ==
  IF s.threw THEN [e |-> s.e, threw |-> TRUE, moved |-> FALSE, scheduled |-> FALSE]
  ELSE aiExecute(s, executeMove(s.e, aiMove.toX, aiMove.toY))

\* executeAIMove after AI.chooseMove gave c
aiChosen(e, c) ==
  IF c.div THEN [e |-> e, threw |-> TRUE, moved |-> FALSE, scheduled |-> FALSE]
  ELSE IF c.val = NoMove
  THEN [e |-> e, threw |-> FALSE, moved |-> FALSE, scheduled |-> FALSE]
  ELSE aiSelect(selectPiece(e, c.val.fromX, c.val.fromY), c.val)

\* executeAIMove: the engine after the callback, whether it threw, whether
\* its executeMove was accepted and whether that scheduled a new callback
executeAIMove(e) ==
  IF e.gameStatus = GAME_OVER
  THEN [e |-> e, threw |-> FALSE, moved |-> FALSE, scheduled |-> FALSE]
  ELSE aiChosen(e, chooseMoveH(storeOf(e.squares, e.pieces), LiveBoard, e.currentTurn).res)

\* Most callbacks held by setTimeout at one time.
MaxTimers == 2

\* Most moves executed in one single-player game.
MaxAIMoves == 3

\* The squares the user's calls name.
UserXs == {0, 7}
UserYs == {0, 1, 5}

InitAI ==
  /\ \E e \in {newEngine(SINGLE_PLAYER, NormalTerrain)} :
       /\ squares = e.squares
       /\ pieces = e.pieces
       /\ terrain = e.terrain
       /\ currentTurn = e.currentTurn
       /\ gameStatus = e.gameStatus
       /\ gameMode = e.gameMode
       /\ selectedPiece = e.selectedPiece
       /\ validMoves = e.validMoves
       /\ combatLog = e.combatLog
       /\ moveHistory = e.moveHistory
       /\ turnCount = e.turnCount
  /\ lastCall = [op |-> "constructor", ret |-> "returned"]
  /\ probe = NoProbe
  /\ twin = NoTwin
  /\ rescue = RescueReady
  /\ timers = 0

\* The Rook-and-King position placed on the board of a fresh engine that has
\* no callback scheduled.
ArrangeTrap ==
  /\ Fresh(Engine)
  /\ timers = 0
  /\ SetEngine([Engine EXCEPT !.squares = placeAll(TrapPosition), !.pieces = TrapPosition])
  /\ lastCall' = [op |-> "arrange", ret |-> "returned"]
  /\ UNCHANGED << probe, twin, rescue, timers >>

\* executeMove called by the user
UserExecuteMove(x, y) ==
  \E r \in {executeMove(Engine, x, y)} :
     /\ r.ret => Len(moveHistory) < MaxAIMoves
     /\ schedules(Engine, r) => timers < MaxTimers
     /\ SetEngine(r.e)
     /\ timers' = IF schedules(Engine, r) THEN timers + 1 ELSE timers
     /\ lastCall' = [op |-> "executeMove", ret |-> IF r.ret THEN "true" ELSE "false"]
     /\ UNCHANGED << probe, twin, rescue >>

\* A callback held by setTimeout fires: executeAIMove runs
FireCallback ==
  /\ timers > 0
  /\ Len(moveHistory) < MaxAIMoves
  /\ \E r \in {executeAIMove(Engine)} :
       /\ SetEngine(r.e)
       /\ timers' = IF r.scheduled THEN timers ELSE timers - 1
       /\ lastCall' = [op |-> "executeAIMove",
                       ret |-> IF r.threw THEN "threw"
                               ELSE IF r.moved THEN "moved" ELSE "returned"]
       /\ UNCHANGED << probe, twin, rescue >>

NextAI ==
  \/ ArrangeTrap
  \/ \E x \in UserXs, y \in UserYs : SelectPiece(x, y)
  \/ \E x \in UserXs, y \in UserYs : UserExecuteMove(x, y)
  \/ ResetGame
  \/ FireCallback

SpecAI == InitAI /\ [][NextAI]_vars

\* A step of FireCallback, told by what it leaves in lastCall: of the steps of
\* NextAI only those of FireCallback are such steps, and one is possible
\* exactly when FireCallback is.  (Two callbacks in a row may leave the same
\* lastCall, but not for ever: each either takes a timer away or adds a move
\* to the history, and both are bounded.)
CallbackFires ==
  /\ timers > 0
  /\ Len(moveHistory) < MaxAIMoves
  /\ \E ret \in {"threw", "moved", "returned"} :
       lastCall' = [op |-> "executeAIMove", ret |-> ret]

\* The callback is not withheld for ever.
SpecAIFair == SpecAI /\ WF_lastCall(CallbackFires)

(***************************************************************************)
(* Properties of the single-player game (SpecAI, SpecAIFair)               *)
(***************************************************************************)
\* C23: in single-player mode, whenever Black becomes the active side with
\* the game in progress, eventually White is the active side again or the
\* game is no longer in progress (or the game has reached its longest
\* length), provided the callback is not withheld for ever.
C23_EngineTurnEnds ==
  (gameMode = SINGLE_PLAYER /\ currentTurn = BLACK /\ gameStatus = IN_PROGRESS)
    ~> (currentTurn = WHITE \/ gameStatus # IN_PROGRESS \/ Len(moveHistory) >= MaxAIMoves)

\* The piece a callback's accepted executeMove moved (or attacked with).
CallbackPiece == pieces[squares[LastRecord.fromY][LastRecord.fromX]]

\* C24: in single-player mode the deferred callback only ever moves a piece
\* of the engine-controlled side (Black), whatever calls of selectPiece,
\* executeMove and resetGame the user makes between its scheduling and its
\* firing.
C24_CallbackMovesBlack ==
  [][lastCall'.op = "executeAIMove" /\ lastCall'.ret = "moved"
       => CallbackPiece.color = BLACK]_vars

\* C25: isAIThinking() is true exactly when an engine move is pending: a
\* callback has been scheduled and has not yet fired.
C25_ThinkingIffPending == isAIThinking(Engine) <=> timers > 0

(***************************************************************************)
(* Further properties of the engine (Spec)                                 *)
(***************************************************************************)
\* The hit points of every piece, by index.
HPs(pcs) == [i \in DOMAIN pcs |-> pcs[i].stats.hp]

\* C26: GameOver is absorbing: once the status is GameOver no executeMove
\* succeeds, and the board, every piece's HP, the active side and the turn
\* counter stay unchanged until resetGame.
C26_GameOverAbsorbing ==
  [][gameStatus = GAME_OVER /\ lastCall'.op # "resetGame"
       => /\ ~Accepted
          /\ squares' = squares
          /\ HPs(pieces') = HPs(pieces)
          /\ currentTurn' = currentTurn
          /\ turnCount' = turnCount]_vars


\* The move counters of the pieces, by index.
MoveCounts(pcs) == [i \in DOMAIN pcs |-> pcs[i].moveCount]

\* The accepted call is a castling move; the piece on the Rook's corner.
IsCastle == pieces[selectedPiece].type = KING /\ Abs(LastRecord.toX - LastRecord.fromX) = 2
CastleRook == squares[LastRecord.fromY][IF LastRecord.toX > LastRecord.fromX THEN 7 ELSE 0]

\* The move counters after a call that counts the move of each piece of the
\* set and of no other piece.
CountsOnly(movers) ==
  MoveCounts(pieces') =
    [i \in DOMAIN pieces |-> pieces[i].moveCount + (IF i \in movers THEN 1 ELSE 0)]

\* Rejected calls and selectPiece change no move counter.
OtherCallsKeepCounts ==
  Rejected \/ lastCall'.op = "selectPiece" => MoveCounts(pieces') = MoveCounts(pieces)

\* C28 as stated: every successful executeMove increments the acting piece's
\* moveCount by exactly 1 (a castling move also the Rook's) and leaves every
\* other piece's unchanged; rejected calls and selectPiece change none.
C28_AsStated ==
  [][/\ Accepted => CountsOnly({selectedPiece} \cup (IF IsCastle THEN {CastleRook} ELSE {}))
     /\ OtherCallsKeepCounts]_vars

\* The accepted call left the acting piece on the target square.
Advanced == squares'[LastRecord.toY][LastRecord.toX] = selectedPiece

\* C28: a successful executeMove that puts the acting piece on the target
\* square increments its moveCount by exactly 1 (a castling move also the
\* Rook's); an accepted attack that leaves the attacker where it was counts
\* no move; every other piece's moveCount is unchanged, and rejected calls
\* and selectPiece change none.
C28_MoveCountPerRelocation ==
  [][/\ Accepted /\ Advanced
          => CountsOnly({selectedPiece} \cup (IF IsCastle THEN {CastleRook} ELSE {}))
     /\ Accepted /\ ~Advanced => CountsOnly({})
     /\ OtherCallsKeepCounts]_vars

\* An attack was accepted, the defender survived and the attacker, never
\* moved, still has moveCount 0.
C28_Witness ==
  /\ lastCall = [op |-> "executeMove", ret |-> "true"]
  /\ moveHistory # <<>>
  /\ moveHistory[Len(moveHistory)].combatResult # <<>>
  /\ moveHistory[Len(moveHistory)].combatResult[1].defenderAlive
  /\ pieces[moveHistory[Len(moveHistory)].combatResult[1].attacker].moveCount = 0
  /\ isAlive(pieces[moveHistory[Len(moveHistory)].combatResult[1].attacker])


\* C30: when an executed attack kills the defender, the defender deals no
\* counter-damage (the attacker's HP is unchanged and the counter-damage is
\* 0), the defender is removed from the board, and the surviving attacker
\* ends on the target square with its origin square empty.
C30_KillAdvancesAttacker ==
  [][Accepted /\ LastRecord.combatResult # <<>>
       /\ ~LastRecord.combatResult[1].defenderAlive
       => /\ LastRecord.combatResult[1].defenderCounterDamage = 0
          /\ pieces'[selectedPiece].stats.hp = pieces[selectedPiece].stats.hp
          /\ isAlive(pieces'[selectedPiece])
          /\ \A y \in Coord, x \in Coord :
               squares'[y][x] # squares[LastRecord.toY][LastRecord.toX]
          /\ squares'[LastRecord.toY][LastRecord.toX] = selectedPiece
          /\ pieces'[selectedPiece].x = LastRecord.toX
          /\ pieces'[selectedPiece].y = LastRecord.toY
          /\ squares'[LastRecord.fromY][LastRecord.fromX] = 0]_vars

\* An attack from two squares away killed the defender and the game goes on:
\* the attacker stands on the square the defender held.
C30_Witness ==
  /\ lastCall = [op |-> "executeMove", ret |-> "true"]
  /\ gameStatus = IN_PROGRESS
  /\ moveHistory # <<>>
  /\ LET rec == moveHistory[Len(moveHistory)]
     IN /\ rec.combatResult # <<>>
        /\ ~rec.combatResult[1].defenderAlive
        /\ rec.capturedPiece = rec.combatResult[1].defender
        /\ Max(Abs(rec.toX - rec.fromX), Abs(rec.toY - rec.fromY)) = 2
        /\ squares[rec.toY][rec.toX] = rec.combatResult[1].attacker


\* The piece stands on the board before the accepted call, alive, and takes
\* no part in it: it neither acts nor is attacked, and the acting piece is
\* not a King, whose move heals its neighbours.
Bystander(i) ==
  /\ pieces[selectedPiece].type # KING
  /\ i # selectedPiece
  /\ i # AttackedPiece
  /\ squares[pieces[i].y][pieces[i].x] = i
  /\ isAlive(pieces[i])

\* C32: after each successful executeMove every living piece on a Fire tile,
\* not only the mover, has lost 10 HP (not below 0) and every living piece on
\* a Water tile below its max HP has gained 5 HP (capped at max); a piece
\* brought to 0 HP is off the board when the call returns.  Stated for the
\* pieces that take no part in the move, whose HP nothing else changes.
C32_TileEffectsAfterMove ==
  [][Accepted
       => \A i \in DOMAIN pieces :
            Bystander(i)
              => /\ terrain[pieces[i].y][pieces[i].x] = FIRE
                      => /\ pieces'[i].stats.hp = Max(0, pieces[i].stats.hp - 10)
                         /\ pieces'[i].stats.hp = 0
                              => squares'[pieces[i].y][pieces[i].x] # i
                 /\ (terrain[pieces[i].y][pieces[i].x] = WATER
                       /\ pieces[i].stats.hp < pieces[i].stats.maxHP)
                      => pieces'[i].stats.hp
                           = Min(pieces[i].stats.maxHP, pieces[i].stats.hp + 5)]_vars


\* The living pieces of the acting piece's colour that stand on the board
\* within one square of it when the accepted call returns, itself excluded.
AlliesInReach ==
  {i \in DOMAIN pieces :
     /\ i # selectedPiece
     /\ pieces[i].color = pieces[selectedPiece].color
     /\ isAlive(pieces[i])
     /\ squares'[pieces'[i].y][pieces'[i].x] = i
     /\ Chebyshev(pieces'[i], pieces'[selectedPiece]) <= 1}

\* C33: when the piece that just acted is a King, every living ally within
\* Chebyshev distance 1 of it gains 5 HP capped at its max HP, no other
\* piece's HP changes (but through the combat of the move), and the log line
\* is produced only when at least one ally's HP actually increased.
C33_KingHealsAllies ==
  [][Accepted /\ pieces[selectedPiece].type = KING
       => /\ \A i \in AlliesInReach :
               pieces'[i].stats.hp = Min(pieces[i].stats.maxHP, pieces[i].stats.hp + 5)
          /\ \A i \in DOMAIN pieces \ (AlliesInReach \cup {selectedPiece, AttackedPiece}) :
               pieces'[i].stats.hp = pieces[i].stats.hp
          /\ InLog(combatLog', LogInspires)
               => \E i \in AlliesInReach : pieces'[i].stats.hp > pieces[i].stats.hp]_vars

\* C38: the move history holds one record per successful executeMove since
\* construction or resetGame (rejected calls and the other calls add none),
\* and the turn counter is 1 plus the number of successful calls after which
\* the game was not over; so while the game is in progress the counter is 1
\* plus the length of the history.
C38_HistoryAndTurns ==
  /\ moveHistory = <<>> /\ turnCount = 1
  /\ [](gameStatus = IN_PROGRESS => turnCount = 1 + Len(moveHistory))
  /\ [][/\ Accepted
             => /\ Len(moveHistory') = Len(moveHistory) + 1
                /\ SubSeq(moveHistory', 1, Len(moveHistory)) = moveHistory
                /\ turnCount' = turnCount + (IF gameStatus' = GAME_OVER THEN 0 ELSE 1)
        /\ lastCall'.op = "resetGame" => (moveHistory' = <<>> /\ turnCount' = 1)
        /\ (~Accepted /\ lastCall'.op # "resetGame")
             => (moveHistory' = moveHistory /\ turnCount' = turnCount)]_vars

\* Two moves were made and the second ended the game: two records, and the
\* counter at 2.
C38_Witness ==
  /\ Len(moveHistory) = 2 /\ gameStatus = GAME_OVER /\ turnCount = 2
  /\ lastCall = [op |-> "executeMove", ret |-> "true"]

\* The cached selection is the one a selectPiece call on the present board
\* would cache: a living piece of the active side standing on its own
\* square, with the list getValidMoves returns for it.
SelectionCurrent ==
  LET p == pieces[selectedPiece]
      r == getValidMoves(p, Grid(squares, pieces))
  IN /\ isAlive(p)
     /\ OnBoard(p.x, p.y) /\ squares[p.y][p.x] = selectedPiece
     /\ p.color = currentTurn
     /\ ~r.div /\ validMoves = r.val

\* The call changed the board: an accepted executeMove, by the user or by
\* the engine's callback, or resetGame.
MutatesBoard ==
  \/ Accepted
  \/ lastCall'.op = "executeAIMove" /\ lastCall'.ret = "moved"
  \/ lastCall'.op = "resetGame"

\* C39: whenever a piece is selected it is alive, on the board at its own
\* square and of the active side, and the cached list is getValidMoves of it
\* on the current board; executeMove, the engine's own move and resetGame
\* leave the selection empty.
C39_SelectionInvariant ==
  /\ [](selectedPiece # 0 => SelectionCurrent)
  /\ [][MutatesBoard => (selectedPiece' = 0 /\ validMoves' = <<>>)]_vars

(***************************************************************************)
(* SpecPlay: the engine on positions with castling on both sides and with  *)
(* a King in check.                                                        *)
(***************************************************************************)
\* The White King and both its Rooks unmoved.
CastleWhitePosition ==
  << NewPiece(KING, WHITE, 4, 7, 1),
     NewPiece(ROOK, WHITE, 0, 7, 2),
     NewPiece(ROOK, WHITE, 7, 7, 3),
     moved(NewPiece(KING, BLACK, 4, 0, 4)) >>

\* The Black King and both its Rooks unmoved.
CastleBlackPosition ==
  << moved(NewPiece(KING, WHITE, 4, 7, 1)),
     NewPiece(KING, BLACK, 4, 0, 2),
     NewPiece(ROOK, BLACK, 0, 0, 3),
     NewPiece(ROOK, BLACK, 7, 0, 4) >>

\* A Black Rook next to the White King, giving check.
CheckedKingPosition ==
  << moved(NewPiece(KING, WHITE, 4, 7, 1)),
     moved(NewPiece(ROOK, BLACK, 4, 6, 2)),
     moved(NewPiece(KING, BLACK, 4, 0, 3)) >>

\* The Black King holds a damage-reduction buff of three turns (addBuff).
BuffedPosition ==
  << moved(NewPiece(KING, WHITE, 4, 7, 1)),
     addBuff(moved(NewPiece(KING, BLACK, 4, 0, 2)), Buff("rescue", 80, 3)),
     NewPiece(PAWN, BLACK, 0, 1, 3) >>

PlayPositions ==
  << CastleWhitePosition, CastleBlackPosition, CheckedKingPosition, BuffedPosition >>

ArrangePlay(i) ==
  /\ Fresh(Engine)
  /\ SetEngine([Engine EXCEPT !.squares = placeAll(PlayPositions[i]),
                              !.pieces = PlayPositions[i]])
  /\ lastCall' = [op |-> "arrange", ret |-> "returned"]
  /\ UNCHANGED << probe, twin, rescue, timers >>

NextPlay ==
  \/ \E i \in 1..Len(PlayPositions) : ArrangePlay(i)
  \/ \E x \in Inputs, y \in Inputs : SelectPiece(x, y)
  \/ DeselectPiece
  \/ \E x \in Inputs, y \in Inputs : ExecuteMove(x, y)
  \/ ResetGame

SpecPlay == Init /\ [][NextPlay]_vars

\* C27: after every successful executeMove the King of the side that just
\* moved, when it still stands on the board, is not in check, also when the
\* move was an attack the defender survived, so that the attacker did not
\* advance.
C27_MoverNotInCheck ==
  [][Accepted /\ ~KingGone(squares', pieces', currentTurn)
       => ~InCheck(squares', pieces', currentTurn)]_vars

\* C29: executing a castling move relocates both pieces: king-side the King
\* ends on column 6 and the Rook on column 5, queen-side the King on column 2
\* and the Rook on column 3, all on the King's home rank; the King's and the
\* Rook's origin squares are empty afterwards and no other piece moves.
C29_CastlingRelocatesBoth ==
  [][Accepted /\ IsCastle
       => LET y == LastRecord.fromY
              kingSide == LastRecord.toX > LastRecord.fromX
              kingTo == IF kingSide THEN 6 ELSE 2
              rookFrom == IF kingSide THEN 7 ELSE 0
              rookTo == IF kingSide THEN 5 ELSE 3
          IN /\ y = (IF pieces[selectedPiece].color = WHITE THEN 7 ELSE 0)
             /\ CastleRook # 0
             /\ pieces[CastleRook].type = ROOK
             /\ squares'[y][kingTo] = selectedPiece
             /\ pieces'[selectedPiece].x = kingTo /\ pieces'[selectedPiece].y = y
             /\ squares'[y][rookTo] = CastleRook
             /\ pieces'[CastleRook].x = rookTo /\ pieces'[CastleRook].y = y
             /\ squares'[y][LastRecord.fromX] = 0
             /\ squares'[y][rookFrom] = 0
             /\ \A yy \in Coord, xx \in Coord :
                  (yy # y \/ xx \notin {LastRecord.fromX, rookFrom, kingTo, rookTo})
                    => squares'[yy][xx] = squares[yy][xx]
             /\ \A i \in DOMAIN pieces \ {selectedPiece, CastleRook} :
                  pieces'[i].x = pieces[i].x /\ pieces'[i].y = pieces[i].y]_vars

\* The Black King has castled queen-side: it stands on (2,0), its Rook on (3,0).
C29_Witness ==
  /\ lastCall = [op |-> "executeMove", ret |-> "true"]
  /\ InLog(combatLog, LogCastleQueenside)
  /\ squares[0][2] # 0 /\ pieces[squares[0][2]].type = KING
  /\ squares[0][3] # 0 /\ pieces[squares[0][3]].type = ROOK
  /\ squares[0][0] = 0 /\ squares[0][4] = 0


\* C35: each buff tick lowers every buff's remaining duration on the piece by
\* exactly 1 and drops those that reach 0; endTurn ticks the buffs of the
\* newly active side's pieces and of no other piece; every stored buff has a
\* remaining duration above 0.
C35_BuffTick ==
  /\ [](\A i \in DOMAIN pieces : \A k \in 1..Len(pieces[i].buffs) :
          pieces[i].buffs[k].duration > 0)
  /\ [][Accepted /\ turnCount' # turnCount
          => \A i \in DOMAIN pieces :
               pieces'[i].buffs = IF pieces[i].color = currentTurn'
                                  THEN tickBuffs(pieces[i]).buffs
                                  ELSE pieces[i].buffs]_vars

(***************************************************************************)
(* SpecTerminal: Board.isGameOver and GameEngine.getWinner applied to      *)
(* boards on which each King is alive, dead or absent.                     *)
(***************************************************************************)
\* The hit points a King is given; Absent stands for a King not on the board.
Absent == 0 - 1
KingHPs == {Absent, 0, 1, 50}
PawnHPs == {0, 30}

\* The pieces numbered by their place in the list.
Renumber(pcs) == [i \in 1..Len(pcs) |-> [pcs[i] EXCEPT !.id = i]]

TerminalBoards ==
  {Renumber((IF wh = Absent THEN <<>> ELSE << withHP(NewPiece(KING, WHITE, 4, 7, 1), wh) >>)
            \o (IF bh = Absent THEN <<>> ELSE << withHP(NewPiece(KING, BLACK, 4, 0, 1), bh) >>)
            \o << withHP(NewPiece(PAWN, c, 3, 4, 1), ph) >>) :
     wh \in KingHPs, bh \in KingHPs, c \in {WHITE, BLACK}, ph \in PawnHPs}

InitTerminal ==
  /\ \E pcs \in TerminalBoards, e \in {newEngine(TWO_PLAYER, NormalTerrain)} :
       /\ squares = placeAll(pcs)
       /\ pieces = pcs
       /\ terrain = e.terrain
       /\ currentTurn = e.currentTurn
       /\ gameStatus = e.gameStatus
       /\ gameMode = e.gameMode
       /\ selectedPiece = e.selectedPiece
       /\ validMoves = e.validMoves
       /\ combatLog = e.combatLog
       /\ moveHistory = e.moveHistory
       /\ turnCount = e.turnCount
  /\ lastCall = [op |-> "constructor", ret |-> "returned"]
  /\ twin = NoTwin
  /\ rescue = RescueReady
  /\ timers = 0
  /\ probe = NoProbe

ApplyIsGameOver ==
  /\ probe' = [fn |-> "isGameOver", result |-> isGameOver(squares, pieces)]
  /\ EngineUnchanged

ApplyGetWinner ==
  /\ probe' = [fn |-> "getWinner", result |-> getWinner(Engine)]
  /\ EngineUnchanged

NextTerminal == ApplyIsGameOver \/ ApplyGetWinner

SpecTerminal == InitTerminal /\ [][NextTerminal]_vars

\* C31: the terminal test reports 'over' iff at least one side has no living
\* King on the board, and whenever it reports 'over' the winner it names is a
\* side whose King is alive on the board: none when both Kings are gone.
C31_WinnerHasLivingKing ==
  /\ probe.fn = "isGameOver"
       => /\ probe.result.gameOver
               <=> (KingGone(squares, pieces, WHITE) \/ KingGone(squares, pieces, BLACK))
          /\ probe.result.gameOver
               => IF KingGone(squares, pieces, WHITE) /\ KingGone(squares, pieces, BLACK)
                  THEN probe.result.winner = "null"
                  ELSE /\ probe.result.winner \in {WHITE, BLACK}
                       /\ ~KingGone(squares, pieces, probe.result.winner)
  /\ probe.fn = "getWinner" /\ probe.result # "null"
       => ~KingGone(squares, pieces, probe.result)

(***************************************************************************)
(* SpecBuff: calculateDamage and resolveCombat applied to pieces that hold *)
(* the damage-reduction buff or none.                                      *)
(***************************************************************************)
BuffLists == {<<>>, << RescueBuff >>}

\* A King with the given defence, hit points and buffs.
BuffedKing(color, x, y, id, def, hp, buffs) ==
  [CombatPiece(color, x, y, id, TANK, 12, def, hp, 1) EXCEPT !.type = KING, !.buffs = buffs]

BuffAttackers ==
  {[a EXCEPT !.buffs = buffs] : a \in Attackers, buffs \in BuffLists}

BuffDefenders ==
  {BuffedKing(BLACK, x, 0, 2, def, hp, buffs) :
     x \in 1..2, def \in {1, 5, 20}, hp \in {5, 50}, buffs \in BuffLists}

InitBuff ==
  /\ \E e \in {newEngine(TWO_PLAYER, NormalTerrain)} :
       /\ squares = e.squares
       /\ pieces = e.pieces
       /\ terrain = e.terrain
       /\ currentTurn = e.currentTurn
       /\ gameStatus = e.gameStatus
       /\ gameMode = e.gameMode
       /\ selectedPiece = e.selectedPiece
       /\ validMoves = e.validMoves
       /\ combatLog = e.combatLog
       /\ moveHistory = e.moveHistory
       /\ turnCount = e.turnCount
  /\ lastCall = [op |-> "constructor", ret |-> "returned"]
  /\ twin = NoTwin
  /\ rescue = RescueReady
  /\ timers = 0
  /\ \E a \in BuffAttackers, d \in BuffDefenders :
        probe = [fn |-> "input", attacker |-> a, defender |-> d, board |-> NoBoard]

SpecBuff == InitBuff /\ [][NextCombat]_vars

\* The piece without its buffs.
Unbuffed(p) == [p EXCEPT !.buffs = <<>>]

\* C34: a damage-reduction buff on the target of a strike (attack or
\* counter) reduces the incoming damage before the floor at 1: a piece
\* holding the 80% buff takes at least 1 and strictly less than it would
\* without the buff whenever that damage exceeds 1.
C34_BuffReducesDamage ==
  /\ probe.fn = "calculateDamage" /\ probe.defender.buffs # <<>>
       => LET plain == calculateDamage(probe.attacker, Unbuffed(probe.defender), probe.board)
          IN /\ probe.result >= 1
             /\ plain > 1 => probe.result < plain
  /\ probe.fn = "resolveCombat"
       => LET plain == resolveCombat(Unbuffed(probe.attacker), Unbuffed(probe.defender),
                                     probe.board)
          IN /\ (probe.defender.buffs # <<>> /\ plain.attackDamage > 1)
                  => probe.result.attackDamage < plain.attackDamage
             /\ (probe.attacker.buffs # <<>> /\ probe.defender.buffs = <<>>
                   /\ plain.defenderCounterDamage > 1)
                  => probe.result.defenderCounterDamage < plain.defenderCounterDamage

(***************************************************************************)
(* SpecPotential: getPotentialMoves applied to one piece among blockers    *)
(***************************************************************************)
\* The blockers stand at most MaxGap squares from the piece, along a line.
MaxGap == 2

Lines == {d \in {0 - 1, 0, 1} \X {0 - 1, 0, 1} : d # << 0, 0 >>}

Gaps == {<< d[1] * k, d[2] * k >> : d \in Lines, k \in 1..MaxGap}

\* A white pawn on its home rank at the edge, a black pawn on its home rank,
\* a square in the middle, and the two far ranks.
MoverSquares == {<< 0, 6 >>, << 3, 1 >>, << 3, 4 >>, << 7, 0 >>, << 6, 7 >>}

NoGap == << 0, 0 >>

\* The draws: the piece's kind, colour and square, and for each blocker its
\* colour and its gap from the piece (NoGap: the blocker is absent; the
\* second blocker is present only with the first, on another square).
PotentialDraws ==
  {w \in PieceTypes \X {WHITE, BLACK} \X MoverSquares
           \X {WHITE, BLACK} \X (Gaps \cup {NoGap})
           \X {WHITE, BLACK} \X (Gaps \cup {NoGap}) :
     /\ OnBoard(w[3][1] + w[5][1], w[3][2] + w[5][2])
     /\ OnBoard(w[3][1] + w[7][1], w[3][2] + w[7][2])
     /\ w[5] = NoGap => (w[4] = WHITE /\ w[7] = NoGap)
     /\ w[7] = NoGap => w[6] = WHITE
     /\ w[7] # NoGap => w[7] # w[5]}

PotentialBoards ==
  {<< NewPiece(w[1], w[2], w[3][1], w[3][2], 1) >>
     \o (IF w[5] = NoGap THEN <<>>
         ELSE << NewPiece(PAWN, w[4], w[3][1] + w[5][1], w[3][2] + w[5][2], 2) >>)
     \o (IF w[7] = NoGap THEN <<>>
         ELSE << NewPiece(PAWN, w[6], w[3][1] + w[7][1], w[3][2] + w[7][2], 3) >>) :
   w \in PotentialDraws}

InitPotential ==
  /\ \E pcs \in PotentialBoards, e \in {newEngine(TWO_PLAYER, NormalTerrain)} :
       /\ squares = placeAll(pcs)
       /\ pieces = pcs
       /\ terrain = e.terrain
       /\ currentTurn = e.currentTurn
       /\ gameStatus = e.gameStatus
       /\ gameMode = e.gameMode
       /\ selectedPiece = e.selectedPiece
       /\ validMoves = e.validMoves
       /\ combatLog = e.combatLog
       /\ moveHistory = e.moveHistory
       /\ turnCount = e.turnCount
  /\ lastCall = [op |-> "constructor", ret |-> "returned"]
  /\ twin = NoTwin
  /\ rescue = RescueReady
  /\ timers = 0
  /\ probe = NoProbe

\* The call returns its list; diverged marks a call that would not return.
ApplyGetPotentialMoves(i) ==
  /\ LET r == getPotentialMoves(pieces[i], Grid(squares, pieces))
     IN probe' = [fn |-> "getPotentialMoves", piece |-> i,
                  diverged |-> r.div, result |-> r.val]
  /\ EngineUnchanged

NextPotential == \E i \in DOMAIN pieces : ApplyGetPotentialMoves(i)

SpecPotential == InitPotential /\ [][NextPotential]_vars

\* The list as a set, and whether it lists no move twice.
MoveSet(moves) == {moves[k] : k \in 1..Len(moves)}

NoRepeats(moves) == Cardinality(MoveSet(moves)) = Len(moves)

Vacant(board, x, y) == OnBoard(x, y) /\ board[y][x] = Null

Hostile(board, color, x, y) ==
  OnBoard(x, y) /\ board[y][x] # Null /\ board[y][x].color # color

\* C36: a pawn's potential moves are exactly one square forward when that
\* square is on the board and empty, two squares forward from the home rank
\* when both squares ahead are empty, and each forward diagonal that holds
\* an enemy piece, tagged as an attack; never an occupied square straight
\* ahead, never an empty diagonal.
C36_PawnMoves ==
  (probe.fn = "getPotentialMoves" /\ ~probe.diverged /\ pieces[probe.piece].type = PAWN)
    => LET p == pieces[probe.piece]
           board == Grid(squares, pieces)
           fwd == IF p.color = WHITE THEN 0 - 1 ELSE 1
           home == IF p.color = WHITE THEN 6 ELSE 1
           single == {Move(p.x, p.y + fwd, FALSE) : u \in
                        {v \in {1} : Vacant(board, p.x, p.y + fwd)}}
           double == {Move(p.x, p.y + 2 * fwd, FALSE) : u \in
                        {v \in {1} : /\ p.y = home
                                     /\ Vacant(board, p.x, p.y + fwd)
                                     /\ Vacant(board, p.x, p.y + 2 * fwd)}}
           takes == {Move(p.x + dx, p.y + fwd, TRUE) : dx \in
                        {d \in {0 - 1, 1} : Hostile(board, p.color, p.x + d, p.y + fwd)}}
       IN /\ MoveSet(probe.result) = single \cup double \cup takes
          /\ NoRepeats(probe.result)
          /\ \A k \in 1..Len(probe.result) :
               LET m == probe.result[k]
               IN /\ m.x = p.x => board[m.y][m.x] = Null
                  /\ m.x # p.x => board[m.y][m.x] # Null

\* A pawn on its home rank with the square ahead free and the next one
\* taken, and an enemy on a forward diagonal: one step and one capture.
C36_Witness ==
  /\ probe.fn = "getPotentialMoves" /\ pieces[probe.piece].type = PAWN
  /\ LET p == pieces[probe.piece]
         board == Grid(squares, pieces)
         fwd == IF p.color = WHITE THEN 0 - 1 ELSE 1
     IN /\ p.y = (IF p.color = WHITE THEN 6 ELSE 1)
        /\ board[p.y + 2 * fwd][p.x] # Null
        /\ Len(probe.result) = 2
        /\ \E k \in 1..2 : probe.result[k].isAttack

Sliders == {BISHOP, ROOK, QUEEN}

directionsOf(type) ==
  CASE type = BISHOP -> MoveSet(bishopDirections)
    [] type = ROOK   -> MoveSet(rookDirections)
    [] type = QUEEN  -> MoveSet(queenDirections)
    [] OTHER         -> {}

\* The k-th square of the ray is reached: it is on the board, every square
\* before it is empty, and it does not hold a piece of the mover's colour.
Reached(board, p, d, k) ==
  /\ OnBoard(p.x + k * d[1], p.y + k * d[2])
  /\ \A j \in 1..(k - 1) : board[p.y + j * d[2]][p.x + j * d[1]] = Null
  /\ LET t == board[p.y + k * d[2]][p.x + k * d[1]]
     IN t = Null \/ t.color # p.color

\* C37: for Bishop, Rook and Queen the moves are exactly the squares of each
\* ray up to the first non-empty square or the edge, that square included
\* iff it holds an enemy, none beyond it; and every move of every kind is on
\* the board, not onto a friendly piece, and an attack iff the destination
\* holds an enemy.
C37_RaysAndTags ==
  (probe.fn = "getPotentialMoves" /\ ~probe.diverged)
    => LET p == pieces[probe.piece]
           board == Grid(squares, pieces)
       IN /\ p.type \in Sliders
               => /\ {<< m.x, m.y >> : m \in MoveSet(probe.result)}
                       = UNION {{<< p.x + k * d[1], p.y + k * d[2] >> :
                                   k \in {n \in 1..7 : Reached(board, p, d, n)}} :
                                d \in directionsOf(p.type)}
                  /\ NoRepeats(probe.result)
          /\ \A k \in 1..Len(probe.result) :
               LET m == probe.result[k]
               IN /\ OnBoard(m.x, m.y)
                  /\ board[m.y][m.x] # Null => board[m.y][m.x].color # p.color
                  /\ m.isAttack <=> Hostile(board, p.color, m.x, m.y)

\* A slider with an enemy on a ray and a further piece behind that enemy:
\* the enemy's square is listed as an attack.
C37_Witness ==
  /\ probe.fn = "getPotentialMoves" /\ pieces[probe.piece].type \in Sliders
  /\ LET p == pieces[probe.piece]
         board == Grid(squares, pieces)
     IN \E d \in directionsOf(p.type) :
          /\ OnBoard(p.x + 2 * d[1], p.y + 2 * d[2])
          /\ Hostile(board, p.color, p.x + d[1], p.y + d[2])
          /\ board[p.y + 2 * d[2]][p.x + 2 * d[1]] # Null
          /\ \E k \in 1..Len(probe.result) :
               probe.result[k] = Move(p.x + d[1], p.y + d[2], TRUE)

(***************************************************************************)
(* SpecSim: the combat AI.evaluateMove simulates for an attack move, next  *)
(* to the combat executeMove resolves for the same move on the same board  *)
(***************************************************************************)
\* evaluateMove once the board is cloned (c): testBoard.movePiece, then
\* resolveCombat(testPiece, targetPiece); the result it scores
simulatedCombat(c, piece, move) ==
  resolveCombatH(movePieceH(c.st, c.b, piece.x, piece.y, move.x, move.y),
                 c.st.rows[c.b[piece.y]][piece.x],
                 c.st.rows[c.b[move.y]][move.x]).result

\* The combat result inside evaluateMove(piece, move, board)
evaluateMoveCombat(st, b, r, move) == simulatedCombat(boardCloneH(st, b), st.pcs[r], move)

\* A White piece on d4, healthy or at 1 hit point, and a Black piece at most
\* MaxGap squares from it along a line, healthy or at 1 hit point; both Kings
\* have moved.
SimBoards ==
  {<< moved(NewPiece(KING, WHITE, 7, 7, 1)),
      moved(NewPiece(KING, BLACK, 0, 0, 2)),
      IF ah = 0 THEN NewPiece(t, WHITE, 3, 4, 3) ELSE withHP(NewPiece(t, WHITE, 3, 4, 3), ah),
      IF dh = 0 THEN NewPiece(u, BLACK, 3 + g[1], 4 + g[2], 4)
      ELSE withHP(NewPiece(u, BLACK, 3 + g[1], 4 + g[2], 4), dh) >> :
   t \in {PAWN, KNIGHT, BISHOP, ROOK, QUEEN}, u \in {PAWN, KNIGHT, ROOK, QUEEN},
   g \in {h \in Gaps : OnBoard(3 + h[1], 4 + h[2])},
   ah \in {0, 1}, dh \in {0, 1}}

InitSim ==
  /\ \E pcs \in SimBoards, e \in {newEngine(SINGLE_PLAYER, NormalTerrain)} :
       /\ squares = placeAll(pcs)
       /\ pieces = pcs
       /\ terrain = e.terrain
       /\ currentTurn = e.currentTurn
       /\ gameStatus = e.gameStatus
       /\ gameMode = e.gameMode
       /\ selectedPiece = e.selectedPiece
       /\ validMoves = e.validMoves
       /\ combatLog = e.combatLog
       /\ moveHistory = e.moveHistory
       /\ turnCount = e.turnCount
  /\ lastCall = [op |-> "constructor", ret |-> "returned"]
  /\ twin = NoTwin
  /\ rescue = RescueReady
  /\ timers = 0
  /\ probe = NoProbe

\* evaluateMove for a legal move of piece i that is an attack, as chooseMove
\* calls it for the side to move.
ApplyEvaluateMove(i) ==
  /\ pieces[i].color = currentTurn /\ isAlive(pieces[i])
  /\ squares[pieces[i].y][pieces[i].x] = i
  /\ \E moves \in {getValidMoves(pieces[i], Grid(squares, pieces))} :
       /\ ~moves.div
       /\ \E k \in {j \in 1..Len(moves.val) : moves.val[j].isAttack} :
            probe' = [fn |-> "evaluateMove", piece |-> i, move |-> moves.val[k],
                      result |-> evaluateMoveCombat(storeOf(squares, pieces), LiveBoard,
                                                    i, moves.val[k])]
  /\ EngineUnchanged

NextSim == \E i \in DOMAIN pieces : ApplyEvaluateMove(i)

SpecSim == InitSim /\ [][NextSim]_vars

\* C40: for every attack move the AI scores, the damage dealt, the
\* counter-damage taken and whether the defender survived are, in the
\* simulation, the ones executeMove produces for that move on the live board.
C40_SimulationMatchesEngine ==
  probe.fn = "evaluateMove"
    => LET p == pieces[probe.piece]
           r == executeMove(selectPiece(Engine, p.x, p.y).e, probe.move.x, probe.move.y)
           live == r.e.moveHistory[Len(r.e.moveHistory)].combatResult[1]
       IN /\ r.ret
          /\ probe.result.attackDamage = live.attackDamage
          /\ probe.result.defenderCounterDamage = live.defenderCounterDamage
          /\ probe.result.defenderAlive = live.defenderAlive

====
